---------------------------- MODULE Spec2Model ----------------------------
(***************************************************************************)
(* Sales-pipeline ingestion and scenario dashboard (Equinox44/jsx).        *)
(*                                                                         *)
(* The module models                                                       *)
(*   - the two spreadsheet parsers of src/utils/excelParser.js (the "rich" *)
(*     parser, lines 50-360, and the "legacy" parser, lines 397-554),      *)
(*   - the aggregation, scenario and filter functions of the dashboard     *)
(*     (lines 1479-1576 and 1646-1674 of the same file), and               *)
(*   - the YTD / forecast arithmetic of the Home component (1713-1744).    *)
(*                                                                         *)
(* JavaScript numbers are modelled as exact rationals (mixed numbers, see  *)
(* Num below); floating-point rounding is outside the model.  JavaScript   *)
(* strings are sequences of one-character strings, so that includes(),     *)
(* toLowerCase(), parseInt() and parseFloat() are computed, not assumed.   *)
(***************************************************************************)
EXTENDS Integers, Sequences, FiniteSets, TLC

(***************************************************************************)
(* Numbers.  A finite number is w + n/d with w an integer, 0 <= n < d and  *)
(* n/d in lowest terms (d = 1 when n = 0).  NaN is the record with d = 0.  *)
(***************************************************************************)
RECURSIVE GCD(_, _)
GCD(a, b) == IF b = 0 THEN a ELSE GCD(b, a % b)

Norm(w, n, d) ==
  LET q == n \div d
      r == n % d
      g == GCD(d, r)
  IN  [w |-> w + q, n |-> r \div g, d |-> d \div g]

NaN == [w |-> 0, n |-> 0, d |-> 0]
IsNaN(a) == a.d = 0
FromInt(i) == [w |-> i, n |-> 0, d |-> 1]
Frac(p, q) == Norm(0, p, q)
Zero == FromInt(0)
One == FromInt(1)

NAdd(a, b) ==
  LET l == (a.d \div GCD(a.d, b.d)) * b.d
  IN  Norm(a.w + b.w, a.n * (l \div a.d) + b.n * (l \div b.d), l)

NNeg(a) == IF a.n = 0 THEN FromInt(-a.w) ELSE [w |-> -a.w - 1, n |-> a.d - a.n, d |-> a.d]
NSub(a, b) == NAdd(a, NNeg(b))

NMul(a, b) ==
  NAdd(NAdd(FromInt(a.w * b.w), Norm(0, a.w * b.n, b.d)),
       NAdd(Norm(0, b.w * a.n, a.d), Norm(0, a.n * b.n, a.d * b.d)))

\* a / b for b > 0 (every divisor of the program is a positive literal or guarded)
NDiv(a, b) == NMul(a, Norm(0, b.d, b.w * b.d + b.n))

NLess(a, b) == a.w < b.w \/ (a.w = b.w /\ a.n * b.d < b.n * a.d)
NLeq(a, b) == a = b \/ NLess(a, b)
NPositive(a) == ~IsNaN(a) /\ NLess(Zero, a)

\* Math.ceil and Math.round of a finite number
Ceil(a) == IF a.n = 0 THEN a.w ELSE a.w + 1
Round(a) == IF 2 * a.n >= a.d THEN a.w + 1 ELSE a.w

\* s.reduce((sum, x) => sum + x, 0); addition is exact here, so the sum is
\* computed by halves to keep the evaluation shallow
RECURSIVE SumRange(_, _, _)
SumRange(s, lo, hi) ==
  IF lo > hi THEN Zero
  ELSE IF lo = hi THEN s[lo]
  ELSE LET mid == (lo + hi) \div 2
       IN  NAdd(SumRange(s, lo, mid), SumRange(s, mid + 1, hi))
SumNum(s) == SumRange(s, 1, Len(s))


(***************************************************************************)
(* Strings.  A JavaScript string is a sequence of characters; the peso     *)
(* sign U+20B1 is the character "PESO".  undefined is the value Undefined, *)
(* null is Null: one-element sequences that no string of characters equals.*)
(***************************************************************************)
Undefined == <<"undefined">>
Null == <<"null">>
UpperChars == <<"A","B","C","D","E","F","G","H","I","J","K","L","M",
                "N","O","P","Q","R","S","T","U","V","W","X","Y","Z">>
LowerChars == <<"a","b","c","d","e","f","g","h","i","j","k","l","m",
                "n","o","p","q","r","s","t","u","v","w","x","y","z">>
DigitChars == <<"0","1","2","3","4","5","6","7","8","9">>

LowerChar(c) ==
  IF \E i \in 1..26 : UpperChars[i] = c
  THEN LowerChars[CHOOSE i \in 1..26 : UpperChars[i] = c]
  ELSE c
\* String.prototype.toLowerCase
toLowerCase(s) == [i \in 1..Len(s) |-> LowerChar(s[i])]
\* String.prototype.includes
includes(s, t) ==
  \E i \in 0..(Len(s) - Len(t)) : SubSeq(s, i + 1, i + Len(t)) = t
\* String.prototype.replace(/[set]/g, '')
RECURSIVE StripChars(_, _)
StripChars(s, set) ==
  IF s = <<>> THEN <<>>
  ELSE IF Head(s) \in set THEN StripChars(Tail(s), set)
       ELSE <<Head(s)>> \o StripChars(Tail(s), set)

IsDigit(c) == \E i \in 1..10 : DigitChars[i] = c
DigitVal(c) == (CHOOSE i \in 1..10 : DigitChars[i] = c) - 1
RECURSIVE SkipSpaces(_)
SkipSpaces(s) == IF s # <<>> /\ Head(s) = " " THEN SkipSpaces(Tail(s)) ELSE s
RECURSIVE DigitRun(_)
DigitRun(s) == IF s # <<>> /\ IsDigit(Head(s)) THEN 1 + DigitRun(Tail(s)) ELSE 0
RECURSIVE DigitsValue(_, _)
DigitsValue(s, acc) ==
  IF s = <<>> THEN acc ELSE DigitsValue(Tail(s), 10 * acc + DigitVal(Head(s)))
RECURSIVE Pow10(_)
Pow10(k) == IF k = 0 THEN 1 ELSE 10 * Pow10(k - 1)
Drop(s, k) == SubSeq(s, k + 1, Len(s))

\* Number -> string for an integer (String(n), template literals)
RECURSIVE NatToStr(_)
NatToStr(i) ==
  IF i < 10 THEN <<DigitChars[i + 1]>>
  ELSE NatToStr(i \div 10) \o <<DigitChars[(i % 10) + 1]>>
IntToStr(i) == IF i < 0 THEN <<"-">> \o NatToStr(-i) ELSE NatToStr(i)
\* Number -> string for a finite number with at most three decimals
RECURSIVE TrimZeros(_)
TrimZeros(s) ==
  IF s # <<>> /\ s[Len(s)] = "0" THEN TrimZeros(SubSeq(s, 1, Len(s) - 1)) ELSE s
Pad3(i) == IF i < 10 THEN <<"0","0">> \o NatToStr(i)
           ELSE IF i < 100 THEN <<"0">> \o NatToStr(i) ELSE NatToStr(i)
NumToStr(a) ==
  IF IsNaN(a) THEN <<"N","a","N">>
  ELSE IF a.n = 0 THEN IntToStr(a.w)
  ELSE LET neg == a.w < 0
           m == IF neg THEN NNeg(a) ELSE a
       IN  (IF neg THEN <<"-">> ELSE <<>>) \o NatToStr(m.w) \o <<".">>
             \o TrimZeros(Pad3((m.n * 1000) \div m.d))

(***************************************************************************)
(* parseInt(string): leading blanks, an optional sign, then decimal        *)
(* digits; NaN when no digit follows.  The result is [nan, v].             *)
(***************************************************************************)
ParseDigitsN(u, k) ==
  IF k = 0 THEN [nan |-> TRUE, v |-> 0]
  ELSE [nan |-> FALSE, v |-> DigitsValue(SubSeq(u, 1, k), 0)]
ParseDigits(u) == ParseDigitsN(u, DigitRun(u))
NegInt(r) == [nan |-> r.nan, v |-> -r.v]
ParseIntFrom(t) ==
  IF t # <<>> /\ Head(t) = "-" THEN NegInt(ParseDigits(Tail(t)))
  ELSE IF t # <<>> /\ Head(t) = "+" THEN ParseDigits(Tail(t))
  ELSE ParseDigits(t)
parseIntStr(s) == ParseIntFrom(SkipSpaces(s))

(***************************************************************************)
(* parseFloat(string): leading blanks, an optional sign, digits with an    *)
(* optional fraction, an optional exponent; NaN when there is no digit.    *)
(***************************************************************************)
NegNum(a) == IF IsNaN(a) THEN NaN ELSE NNeg(a)
\* the exponent digits e2 (k3 of them), applied to the mantissa
PFExpN(mant, e2, k3, neg) ==
  IF k3 = 0 THEN mant
  ELSE IF neg THEN NMul(mant, Frac(1, Pow10(DigitsValue(SubSeq(e2, 1, k3), 0))))
  ELSE NMul(mant, FromInt(Pow10(DigitsValue(SubSeq(e2, 1, k3), 0))))
PFExpSign(mant, e1) ==
  IF e1 # <<>> /\ Head(e1) = "-" THEN PFExpN(mant, Tail(e1), DigitRun(Tail(e1)), TRUE)
  ELSE IF e1 # <<>> /\ Head(e1) = "+" THEN PFExpN(mant, Tail(e1), DigitRun(Tail(e1)), FALSE)
  ELSE PFExpN(mant, e1, DigitRun(e1), FALSE)
\* mant read from ndigits digits; r2 is the text after the mantissa
PFExp(mant, ndigits, r2) ==
  IF ndigits = 0 THEN NaN
  ELSE IF r2 # <<>> /\ Head(r2) \in {"e", "E"} THEN PFExpSign(mant, Tail(r2))
  ELSE mant
PFFracN(ip, k1, f, k2) ==
  PFExp(NAdd(FromInt(ip), Frac(DigitsValue(SubSeq(f, 1, k2), 0), Pow10(k2))),
        k1 + k2, Drop(f, k2))
PFFrac(ip, k1, r1) ==
  IF r1 # <<>> /\ Head(r1) = "." THEN PFFracN(ip, k1, Tail(r1), DigitRun(Tail(r1)))
  ELSE PFExp(FromInt(ip), k1, r1)
PFInt(u, k1) == PFFrac(DigitsValue(SubSeq(u, 1, k1), 0), k1, Drop(u, k1))
PFMantissa(u) == PFInt(u, DigitRun(u))
PFSign(t) ==
  IF t # <<>> /\ Head(t) = "-" THEN NegNum(PFMantissa(Tail(t)))
  ELSE IF t # <<>> /\ Head(t) = "+" THEN PFMantissa(Tail(t))
  ELSE PFMantissa(t)
parseFloatStr(s) == PFSign(SkipSpaces(s))

(***************************************************************************)
(* Cells.  sheet_to_json gives each row as an object whose keys are the    *)
(* headers of its non-empty cells; a cell is a string or a number.  A cell *)
(* is modelled as [t |-> "string" | "number", s |-> characters, v |-> Num];*)
(* a missing key reads as undefined.  A cell of type "symbol" stands for a  *)
(* value that cannot be converted: String(v), parseInt(v) and a template   *)
(* literal throw a TypeError for it, as they do for a Symbol; v || x and   *)
(* typeof v do not.  sheet_to_json is not known to produce such a value;   *)
(* it is the model's way to make the processing of one row throw.          *)
(***************************************************************************)
StrCell(s) == [t |-> "string", s |-> s, v |-> Zero]
NumCell(i) == [t |-> "number", s |-> <<>>, v |-> FromInt(i)]
NoCell == [t |-> "undefined", s |-> <<>>, v |-> Zero]
SymCell == [t |-> "symbol", s |-> <<>>, v |-> Zero]
Cell(row, h) == IF h \in DOMAIN row THEN row[h] ELSE NoCell
\* JavaScript truthiness of a cell: undefined, "" and 0 are falsy
Truthy(c) ==
  \/ c.t = "symbol"
  \/ c.t = "string" /\ c.s # <<>>
  \/ c.t = "number" /\ c.v # Zero /\ ~IsNaN(c.v)
\* String(value)
ToStr(c) ==
  IF c.t = "string" THEN c.s
  ELSE IF c.t = "number" THEN NumToStr(c.v)
  ELSE <<"u","n","d","e","f","i","n","e","d">>
\* parseInt(value) and parseFloat(value) convert their argument to a string first
parseInt(c) == parseIntStr(ToStr(c))
parseFloat(c) == parseFloatStr(ToStr(c))


(***************************************************************************)
(* The clock.  A date is [year, day, frac]: day is the 0-based day of the  *)
(* year and frac the elapsed fraction of that day (local time, no          *)
(* daylight-saving shift).                                                 *)
(***************************************************************************)
IsLeap(y) == y % 4 = 0 /\ (y % 100 # 0 \/ y % 400 = 0)
DaysInYear(y) == IF IsLeap(y) THEN 366 ELSE 365
\* new Date(y, 0, 1).getDay(): 0 = Sunday
Jan1Day(y) == (1 + 5 * ((y - 1) % 4) + 4 * ((y - 1) % 100) + 6 * ((y - 1) % 400)) % 7
MonthStarts(y) ==
  IF IsLeap(y) THEN <<0, 31, 60, 91, 121, 152, 182, 213, 244, 274, 305, 335>>
  ELSE <<0, 31, 59, 90, 120, 151, 181, 212, 243, 273, 304, 334>>
\* new Date().getMonth() + 1
CurrentMonth(now) ==
  CHOOSE m \in 1..12 :
    /\ MonthStarts(now.year)[m] <= now.day
    /\ (m = 12 \/ now.day < MonthStarts(now.year)[m + 1])
\* new Date().getFullYear()
CurrentYear(now) == now.year

(***************************************************************************)
(* Rich parser (excelParser.js 1-360)                                      *)
(***************************************************************************)
hAccountName == <<"A","c","c","o","u","n","t"," ","N","a","m","e">>
hIndustry == <<"I","n","d","u","s","t","r","y">>
hSalesCategory == <<"S","a","l","e","s"," ","C","a","t","e","g","o","r","y">>
hSalesStage == <<"S","a","l","e","s"," ","S","t","a","g","e">>
hCity == <<"C","i","t","y">>
hTerritoryCode == <<"T","e","r","r","i","t","o","r","y"," ","C","o","d","e">>
hSalesAgent == <<"S","a","l","e","s"," ","A","g","e","n","t">>
hCommittedMonthlyVolume == <<"C","o","m","m","i","t","t","e","d"," ","M","o","n","t","h","l","y"," ","V","o","l","u","m","e">>
hCommittedFYVolume == <<"C","o","m","m","i","t","t","e","d"," ","F","Y"," ","V","o","l","u","m","e">>
hMonthlySalesForecast == <<"M","o","n","t","h","l","y"," ","S","a","l","e","s"," ","F","o","r","e","c","a","s","t">>
hTeamDesignation == <<"T","e","a","m"," ","D","e","s","i","g","n","a","t","i","o","n">>
hForecastedMonth == <<"F","o","r","e","c","a","s","t","e","d"," ","T","X","N"," ","S","t","a","r","t"," ","(","M","o","n","t","h",")">>
hForecastedYear == <<"F","o","r","e","c","a","s","t","e","d"," ","T","X","N"," ","S","t","a","r","t"," ","(","Y","e","a","r",")">>
hYearsOfEngagement == <<"Y","e","a","r","s"," ","o","f"," ","E","n","g","a","g","e","m","e","n","t">>
hRemarks == <<"S","a","l","e","s"," ","R","e","m","a","r","k","s"," ","/"," ","C","o","n","t","a","c","t"," ","H","i","s","t","o","r","y">>
\* Object.keys(COLUMN_MAPPING), in insertion order
COLUMN_MAPPING ==
  <<hAccountName, hIndustry, hSalesCategory, hSalesStage, hCity, hTerritoryCode,
    hSalesAgent, hCommittedMonthlyVolume, hCommittedFYVolume, hMonthlySalesForecast,
    hTeamDesignation, hForecastedMonth, hForecastedYear, hYearsOfEngagement, hRemarks>>

sUnknown == <<"U","n","k","n","o","w","n">>
sProspect == <<"P","r","o","s","p","e","c","t">>
sAugust == <<"A","u","g","u","s","t">>
sAccountDash == <<"A","c","c","o","u","n","t","-">>

\* Object.entries(monthMap) of parseMonthFromText, in insertion order
monthMap ==
  <<[k |-> <<"j","a","n">>, num |-> 1],
     [k |-> <<"f","e","b">>, num |-> 2],
     [k |-> <<"m","a","r">>, num |-> 3],
     [k |-> <<"a","p","r">>, num |-> 4],
     [k |-> <<"m","a","y">>, num |-> 5],
     [k |-> <<"j","u","n">>, num |-> 6],
     [k |-> <<"j","u","l">>, num |-> 7],
     [k |-> <<"a","u","g">>, num |-> 8],
     [k |-> <<"s","e","p">>, num |-> 9],
     [k |-> <<"o","c","t">>, num |-> 10],
     [k |-> <<"n","o","v">>, num |-> 11],
     [k |-> <<"d","e","c">>, num |-> 12],
     [k |-> <<"j","a","n","u","a","r","y">>, num |-> 1],
     [k |-> <<"f","e","b","r","u","a","r","y">>, num |-> 2],
     [k |-> <<"m","a","r","c","h">>, num |-> 3],
     [k |-> <<"a","p","r","i","l">>, num |-> 4],
     [k |-> <<"j","u","n","e">>, num |-> 6],
     [k |-> <<"j","u","l","y">>, num |-> 7],
     [k |-> <<"a","u","g","u","s","t">>, num |-> 8],
     [k |-> <<"s","e","p","t","e","m","b","e","r">>, num |-> 9],
     [k |-> <<"o","c","t","o","b","e","r">>, num |-> 10],
     [k |-> <<"n","o","v","e","m","b","e","r">>, num |-> 11],
     [k |-> <<"d","e","c","e","m","b","e","r">>, num |-> 12]>>

\* parseMonthFromText(monthStr), monthStr a cell value
parseMonthFromText(c, now) ==
  LET lowerStr == toLowerCase(c.s)
      hits == {i \in 1..Len(monthMap) : includes(lowerStr, monthMap[i].k)}
      first == CHOOSE i \in hits : \A j \in hits : i <= j
      num == parseInt(c)
  IN  IF c.t = "string" /\ hits # {} THEN monthMap[first].num
      ELSE IF ~num.nan /\ num.v >= 1 /\ num.v <= 12 THEN num.v
      ELSE CurrentMonth(now)

\* SelectSeq with an index-free predicate given as a set of accepted elements
RECURSIVE FilterSeq(_, _)
FilterSeq(s, keep) ==
  IF s = <<>> THEN <<>>
  ELSE IF Head(s) \in keep THEN <<Head(s)>> \o FilterSeq(Tail(s), keep)
       ELSE FilterSeq(Tail(s), keep)

\* foundColumns of the rich parser: fileCol.includes(col) || col.includes(fileCol)
foundColumns(fileColumns) ==
  FilterSeq(COLUMN_MAPPING,
            {col \in {COLUMN_MAPPING[i] : i \in 1..Len(COLUMN_MAPPING)} :
               \E fileCol \in fileColumns :
                  includes(fileCol, col) \/ includes(col, fileCol)})

\* literals of the rich parser
WeeksPerYear == 52
WeeksPerMonth == Frac(4345, 1000)
RevDefaultBase == 500000
RevDefaultSpan == 2000000
VolDefaultBase == 50
VolDefaultSpan == 500
RichThreshold == 2
\* 1 + 0.12 * Math.sin((2 * Math.PI * w) / 52), to three decimals, for w = 1..52
SeasonalMilli ==
  <<1014, 1029, 1043, 1056, 1068, 1080, 1090, 1099, 1106, 1112, 1117, 1119, 1120,
    1119, 1117, 1112, 1106, 1099, 1090, 1080, 1068, 1056, 1043, 1029, 1014, 1000,
    986, 971, 957, 944, 932, 920, 910, 901, 894, 888, 883, 881, 880, 881, 883, 888,
    894, 901, 910, 920, 932, 944, 957, 971, 986, 1000>>
seasonalFactor(w) == Frac(SeasonalMilli[w], 1000)
\* Math.ceil(w / 4.345)
weekMonth(w) == Ceil(NDiv(FromInt(w), WeeksPerMonth))

\* value || fallback, for parseInt results
IntOr(r, fallback) == IF r.nan \/ r.v = 0 THEN fallback ELSE r.v
\* String(cell || fallback)
StrOr(c, fallback) == IF Truthy(c) THEN ToStr(c) ELSE fallback
\* a || b for cells
CellOr(a, b) == IF Truthy(a) THEN a ELSE b
\* parseFloat(text) || fallback
NumOr(v, fallback) == IF IsNaN(v) \/ v = Zero THEN fallback ELSE v

\* a variant of PositiveOrZero that lets negative amounts through
AnyNumberOrZero(parsed) == IF ~IsNaN(parsed) THEN parsed ELSE Zero
\* revenue / volume parsing of the rich parser (lines 118-165); 0 means "not found"
PositiveOrZero(parsed) == IF ~IsNaN(parsed) /\ NPositive(parsed) THEN parsed ELSE Zero
richAmount(c, strip) ==
  IF Truthy(c) THEN PositiveOrZero(parseFloatStr(StripChars(ToStr(c), strip))) ELSE Zero

\* the object pushed to accountsData (lines 108-183), from the parsed dates and
\* amounts; rRev and rVol are the values Math.random() returns if it is called
richAccountData(row, i, startYear, startMonth, yearsOfEngagement, rev0, vol0, rRev, rVol) ==
  [account |-> StrOr(Cell(row, hAccountName), sAccountDash \o IntToStr(i)),
   industry |-> StrOr(Cell(row, hIndustry), sUnknown),
   salesCategory |-> StrOr(Cell(row, hSalesCategory), sUnknown),
   city |-> StrOr(Cell(row, hCity), sUnknown),
   territoryCode |-> StrOr(Cell(row, hTerritoryCode), sUnknown),
   agent |-> StrOr(Cell(row, hSalesAgent), sUnknown),
   status |-> StrOr(Cell(row, hSalesStage), sProspect),
   teamDesignation |-> StrOr(Cell(row, hTeamDesignation), sUnknown),
   monthlyRevenue |-> IF rev0 = Zero
                      THEN NAdd(FromInt(RevDefaultBase), NMul(rRev, FromInt(RevDefaultSpan)))
                      ELSE rev0,
   monthlyVolume |-> IF vol0 = Zero
                     THEN NAdd(FromInt(VolDefaultBase), NMul(rVol, FromInt(VolDefaultSpan)))
                     ELSE vol0,
   startMonth |-> startMonth,
   startYear |-> startYear,
   yearsOfEngagement |-> yearsOfEngagement,
   endYear |-> startYear + yearsOfEngagement - 1]

\* the try block of the row handler throws (lines 95-188): one of the cells it
\* converts with parseInt, String or a template literal cannot be converted.  All
\* the conversions precede the calls of Math.random() (lines 158, 163).
richRowThrows(row) ==
  \E h \in {hForecastedYear, hForecastedMonth, hYearsOfEngagement, hAccountName,
            hIndustry, hSalesCategory, hCity, hTerritoryCode, hSalesAgent, hSalesStage,
            hTeamDesignation, hMonthlySalesForecast, hCommittedMonthlyVolume} :
     Cell(row, h).t = "symbol"
\* body of jsonData.forEach (lines 94-192) for the row at 1-based position i, when
\* it does not throw
richRow(row, i, now, rRev, rVol) ==
  richAccountData(
    row, i,
    IntOr(parseInt(Cell(row, hForecastedYear)), CurrentYear(now)),
    parseMonthFromText(CellOr(Cell(row, hForecastedMonth), StrCell(sAugust)), now),
    IntOr(parseInt(Cell(row, hYearsOfEngagement)), 1),
    richAmount(Cell(row, hMonthlySalesForecast), {"PESO", ",", " "}),
    richAmount(Cell(row, hCommittedMonthlyVolume), {",", " "}),
    rRev, rVol)

\* a variant of shouldContribute without the end of the engagement window
richShouldContributeNoEnd(acc, w) == weekMonth(w) >= acc.startMonth
\* shouldContribute of the rich parser (line 211); the record's year is acc.startYear
richShouldContribute(acc, w) ==
  weekMonth(w) >= acc.startMonth /\ acc.startYear <= acc.endYear

\* the record pushed for account acc in week w (lines 206-257)
richWeekly(acc, w) ==
  LET contributes == richShouldContribute(acc, w)
      weeklyRevenue == IF contributes
                       THEN NMul(NDiv(acc.monthlyRevenue, WeeksPerMonth), seasonalFactor(w))
                       ELSE Zero
      weeklyVolume == IF contributes
                      THEN NMul(NDiv(acc.monthlyVolume, WeeksPerMonth), seasonalFactor(w))
                      ELSE Zero
  IN  [week |-> w, year |-> acc.startYear, account |-> acc.account,
       industry |-> acc.industry, salesCategory |-> acc.salesCategory,
       city |-> acc.city, area |-> acc.teamDesignation,
       territoryCode |-> acc.territoryCode, agent |-> acc.agent, status |-> acc.status,
       revenue |-> weeklyRevenue, volume |-> weeklyVolume,
       startMonth |-> acc.startMonth, startYear |-> acc.startYear,
       yearsOfEngagement |-> acc.yearsOfEngagement, endYear |-> acc.endYear]

\* for (w = 1..52) accountsData.forEach(...): week-major order (lines 203-259)
richExpand(accountsData) ==
  LET n == Len(accountsData)
  IN  [k \in 1..(WeeksPerYear * n) |->
         richWeekly(accountsData[((k - 1) % n) + 1], ((k - 1) \div n) + 1)]

\* a variant of firstOccurrences that takes the last record of each account name
lastOccurrences(data) ==
  {k \in 1..Len(data) : \A j \in (k + 1)..Len(data) : data[j].account # data[k].account}
\* positions of the first record of each distinct account name, ascending
firstOccurrences(data) ==
  {k \in 1..Len(data) : \A j \in 1..(k - 1) : data[j].account # data[k].account}
RECURSIVE SetToSeqAsc(_)
SetToSeqAsc(S) ==
  IF S = {} THEN <<>>
  ELSE LET m == CHOOSE x \in S : \A y \in S : x <= y
       IN  <<m>> \o SetToSeqAsc(S \ {m})
Revenues(data) == [k \in 1..Len(data) |-> data[k].revenue]
Volumes(data) == [k \in 1..Len(data) |-> data[k].volume]
\* transformedData.filter(d => d.account === name)
byAccount(data, name) == SelectSeq(data, LAMBDA d : d.account = name)
\* a variant of accountBaseRev that takes one record per week, as if account
\* names were unique among the rows
accountBaseRevOnePerWeek(data, name) ==
  SumNum([k \in 1..Len(byAccount(data, name)) |->
            IF \E j \in 1..(k - 1) :
                 byAccount(data, name)[j].week = byAccount(data, name)[k].week
            THEN Zero ELSE byAccount(data, name)[k].revenue])
\* totalRev / totalVol of one account (lines 315-321)
accountBaseRev(data, name) == SumNum(Revenues(byAccount(data, name)))
accountBaseVol(data, name) == SumNum(Volumes(byAccount(data, name)))

\* accountMap and the base totals of the rich parser (lines 288-321)
richAccounts(data) ==
  LET firsts == SetToSeqAsc(firstOccurrences(data))
  IN  [a \in 1..Len(firsts) |->
        LET d == data[firsts[a]]
        IN  [id |-> a, name |-> d.account, industry |-> d.industry,
             salesCategory |-> d.salesCategory, city |-> d.city, area |-> d.area,
             territoryCode |-> d.territoryCode, agent |-> d.agent, status |-> d.status,
             baseRev |-> accountBaseRev(data, d.account),
             baseVol |-> accountBaseVol(data, d.account),
             startMonth |-> d.startMonth, startYear |-> d.startYear,
             yearsOfEngagement |-> d.yearsOfEngagement, endYear |-> d.endYear]]

\* characters in UTF-16 code-unit order, the order Array.prototype.sort() compares by
CharOrder ==
  <<" ", "(", ")", "+", ",", "-", ".", "/"
   >> \o DigitChars \o UpperChars \o LowerChars \o <<"PESO">>
CharCode(c) == CHOOSE i \in 1..Len(CharOrder) : CharOrder[i] = c
RECURSIVE StrLess(_, _)
StrLess(a, b) ==
  IF b = <<>> THEN FALSE
  ELSE IF a = <<>> THEN TRUE
  ELSE IF Head(a) = Head(b) THEN StrLess(Tail(a), Tail(b))
  ELSE CharCode(Head(a)) < CharCode(Head(b))
\* [...new Set(values)].sort() for strings
RECURSIVE SortStrings(_)
SortStrings(S) ==
  IF S = {} THEN <<>>
  ELSE LET m == CHOOSE x \in S : \A y \in S : x = y \/ StrLess(x, y)
       IN  <<m>> \o SortStrings(S \ {m})
\* [...new Set(years)].sort(): numbers sort by their decimal text
RECURSIVE SortYears(_)
SortYears(S) ==
  IF S = {} THEN <<>>
  ELSE LET m == CHOOSE x \in S :
                  \A y \in S : x = y \/ StrLess(IntToStr(x), IntToStr(y))
       IN  <<m>> \o SortYears(S \ {m})
FieldSet(data, f) == {data[k][f] : k \in 1..Len(data)}
SetMax(S) == CHOOSE x \in S : \A y \in S : y <= x
SetMin(S) == CHOOSE x \in S : \A y \in S : x <= y

\* meta of the rich parser's result (lines 278-286)
richMeta(data) ==
  [industries |-> SortStrings(FieldSet(data, "industry")),
   salesCategories |-> SortStrings(FieldSet(data, "salesCategory")),
   cities |-> SortStrings(FieldSet(data, "city")),
   areas |-> SortStrings(FieldSet(data, "area")),
   territoryCodes |-> SortStrings(FieldSet(data, "territoryCode")),
   agents |-> SortStrings(FieldSet(data, "agent")),
   statuses |-> SortStrings(FieldSet(data, "status")),
   year |-> SetMax(FieldSet(data, "year"))]
\* the object the rich parser resolves with (lines 278-347)
richResult(data, fileColumns) ==
  [weekly |-> data,
   accounts |-> richAccounts(data),
   meta |-> richMeta(data),
   info |-> [totalRows |-> Len(data),
             originalColumns |-> fileColumns,
             minWeek |-> SetMin(FieldSet(data, "week")),
             maxWeek |-> SetMax(FieldSet(data, "week")),
             years |-> SortYears(FieldSet(data, "year"))]]

NoResult == [weekly |-> <<>>, accounts |-> <<>>]
NoError == [msg |-> "", found |-> <<>>, available |-> {}]
Resolved(result) == [kind |-> "resolved", error |-> NoError, result |-> result]
Rejected(msg, found, available) ==
  [kind |-> "rejected",
   error |-> [msg |-> msg, found |-> found, available |-> available],
   result |-> NoResult]
Pending == [kind |-> "pending", error |-> NoError, result |-> NoResult]

\* Math.random() is a stream: draws is the sequence of the values it returns, in
\* call order; flags[2i-1] and flags[2i] say whether row i calls it for its revenue
\* and for its volume
CountTrue(flags, k) == Cardinality({j \in 1..k : flags[j]})
DrawFor(draws, flags, k) == IF flags[k] THEN draws[CountTrue(flags, k)] ELSE Zero
richNeedFlags(rows) ==
  [k \in 1..(2 * Len(rows)) |->
     IF richRowThrows(rows[(k + 1) \div 2])
     THEN FALSE
     ELSE IF k % 2 = 1
     THEN richAmount(Cell(rows[(k + 1) \div 2], hMonthlySalesForecast), {"PESO", ",", " "}) = Zero
     ELSE richAmount(Cell(rows[k \div 2], hCommittedMonthlyVolume), {",", " "}) = Zero]
\* a variant of richKept in which the first row that throws ends the loop
richKeptUntilThrow(jsonData) ==
  SetToSeqAsc({i \in 1..Len(jsonData) : \A j \in 1..i : ~richRowThrows(jsonData[j])})
\* the positions of the rows whose handler ran to its end, in row order
richKept(jsonData) == SetToSeqAsc({i \in 1..Len(jsonData) : ~richRowThrows(jsonData[i])})
\* accountsData after jsonData.forEach (lines 92-192): a row that throws is caught
\* (line 189) and pushes nothing
richAccountsData(jsonData, kept, now, draws, flags) ==
  [a \in 1..Len(kept) |->
     richRow(jsonData[kept[a]], kept[a], now,
             DrawFor(draws, flags, 2 * kept[a] - 1),
             DrawFor(draws, flags, 2 * kept[a]))]

\* a variant of richSettle without the check for an empty dataset
richSettleUnchecked(transformedData, fileColumns) ==
  IF Len(transformedData) = 0
  THEN Resolved(NoResult)
  ELSE Resolved(richResult(transformedData, fileColumns))
\* the end of reader.onload of the rich parser (lines 261-347)
richSettle(transformedData, fileColumns) ==
  IF Len(transformedData) = 0
  THEN Rejected("No valid data rows found after transformation", <<>>, {})
  ELSE Resolved(richResult(transformedData, fileColumns))
\* the two loops of reader.onload of the rich parser (lines 91-259)
richTransform(jsonData, fileColumns, now, draws, flags) ==
  richSettle(richExpand(richAccountsData(jsonData, richKept(jsonData), now, draws, flags)),
             fileColumns)
\* the column validation of the rich parser (lines 74-89)
richValidate(jsonData, fileColumns, found, now, draws) ==
  IF Len(found) < RichThreshold
  THEN Rejected("Could not find enough expected columns", found, fileColumns)
  ELSE richTransform(jsonData, fileColumns, now, draws, richNeedFlags(jsonData))
\* reader.onload of the rich parser (lines 54-352): the value the promise settles with
richOnload(file, now, draws) ==
  IF ~file.valid
  THEN Rejected("Failed to parse Excel file", <<>>, {})
  ELSE IF Len(file.rows) = 0
  THEN Rejected("Excel file is empty", <<>>, {})
  ELSE richValidate(file.rows, DOMAIN file.rows[1], foundColumns(DOMAIN file.rows[1]),
                    now, draws)

(***************************************************************************)
(* Legacy parser (excelParser.js 362-554)                                  *)
(***************************************************************************)
hArea == <<"A","r","e","a">>
hSalesRep == <<"S","a","l","e","s"," ","R","e","p">>
hCommittedMonthlyVol == <<"C","o","m","m","i","t","t","e","d"," ","M","o","n","t","h","l","y"," ","V","o","l">>
hMonthlySalesReportPrep == <<"M","o","n","t","h","l","y"," ","S","a","l","e","s"," ","R","e","p","o","r","t"," ","P","r","e","p">>
hYearOfEngagement == <<"Y","e","a","r"," ","o","f"," ","E","n","g","a","g","e","m","e","n","t">>
hExpectedStartLong == <<"E","x","p","e","c","t","e","d","/","F","o","r","e","c","a","s","t","e","d"," ","T","X","N"," ","S","t","a","r","t"," ","(","Y","e","a","r"," ","Y","e","a","r","s"," ","o","f"," ","E","n","g","a","g","e","m","e"," ","C","o","m","m","i","t","t","e","d"," ","M","o","n","t","h","l","y"," ","V","o","l"," ","C","o","m","m","i","t","t","e","d"," ","F","Y"," ","V","o","l","u"," ","M","o","n","t","h","l","y"," ","S","a","l","e","s"," ","R","e","p","o","r","t"," ","P","r","e","p"," ","T","e","r","r","i","t","o","r","y"," ","C","o","d","e">>
hExpectedStart == <<"E","x","p","e","c","t","e","d","/","F","o","r","e","c","a","s","t","e","d"," ","T","X","N"," ","S","t","a","r","t">>
hCommittedFYVolu == <<"C","o","m","m","i","t","t","e","d"," ","F","Y"," ","V","o","l","u">>
sZero == <<"0">>
\* Object.keys(COLUMN_MAPPING) of the legacy parser
LEGACY_COLUMN_MAPPING ==
  <<hAccountName, hIndustry, hSalesStage, hArea, hSalesRep, hCommittedMonthlyVol,
    hMonthlySalesReportPrep>>
LegacyThreshold == 3
LegacyRevDefaultBase == 100000
LegacyRevDefaultSpan == 1000000
DaysPerWeek == 7

\* Object.entries(monthMap) of getWeekFromMonth
weekMap ==
  <<[k |-> <<"J","a","n","u","a","r","y">>, week |-> 1],
     [k |-> <<"F","e","b","r","u","a","r","y">>, week |-> 5],
     [k |-> <<"M","a","r","c","h">>, week |-> 9],
     [k |-> <<"A","p","r","i","l">>, week |-> 13],
     [k |-> <<"M","a","y">>, week |-> 17],
     [k |-> <<"J","u","n","e">>, week |-> 21],
     [k |-> <<"J","u","l","y">>, week |-> 26],
     [k |-> <<"A","u","g","u","s","t">>, week |-> 30],
     [k |-> <<"S","e","p","t","e","m","b","e","r">>, week |-> 35],
     [k |-> <<"O","c","t","o","b","e","r">>, week |-> 39],
     [k |-> <<"N","o","v","e","m","b","e","r">>, week |-> 44],
     [k |-> <<"D","e","c","e","m","b","e","r">>, week |-> 48]>>

\* the default of getWeekFromMonth (lines 391-394):
\* Math.ceil(((now - start) / 86400000 + start.getDay() + 1) / 7)
currentWeek(now) ==
  Ceil(NDiv(NAdd(NAdd(FromInt(now.day), now.frac), FromInt(Jan1Day(now.year) + 1)),
            FromInt(DaysPerWeek)))

\* getWeekFromMonth(monthStr), monthStr a cell value (lines 376-395)
getWeekFromMonth(c, now) ==
  LET hits == {i \in 1..Len(weekMap) :
                 includes(toLowerCase(c.s), toLowerCase(weekMap[i].k))}
      first == CHOOSE i \in hits : \A j \in hits : i <= j
  IN  IF c.t = "string" /\ hits # {} THEN weekMap[first].week ELSE currentWeek(now)

\* foundColumns of the legacy parser: fileColumns.includes(col)
legacyFoundColumns(fileColumns) ==
  FilterSeq(LEGACY_COLUMN_MAPPING, fileColumns)

\* parseFloat of the cleaned revenue text (lines 454-456), before the fallback
legacyRevenueParsed(row) ==
  LET revenueStr == ToStr(CellOr(Cell(row, hMonthlySalesReportPrep),
                                 CellOr(Cell(row, hCommittedFYVolu), StrCell(sZero))))
  IN  parseFloatStr(StripChars(revenueStr,
                               {"A_CIRCUMFLEX", "LOW_QUOTE", "PLUS_MINUS", ",", " "}))
\* parseFloat of the cleaned volume text (lines 459-461), before the fallback
legacyVolumeParsed(row) ==
  LET volumeStr == ToStr(CellOr(Cell(row, hCommittedMonthlyVol), StrCell(sZero)))
  IN  parseFloatStr(StripChars(volumeStr, {",", " "}))

\* the try block of the legacy row handler throws before revenue's Math.random()
\* (lines 434-454): parseInt of the year cell or String of a text or revenue cell.
\* getWeekFromMonth only tests typeof of its argument and does not throw.
legacyRowThrowsEarly(row) ==
  \/ \E h \in {hYearOfEngagement, hAccountName, hIndustry, hArea, hSalesRep, hSalesStage} :
        Cell(row, h).t = "symbol"
  \/ CellOr(Cell(row, hMonthlySalesReportPrep),
            CellOr(Cell(row, hCommittedFYVolu), StrCell(sZero))).t = "symbol"
\* the try block throws (lines 432-474); String of the volume cell (line 459) comes
\* after revenue's Math.random() (line 456)
legacyRowThrows(row) ==
  legacyRowThrowsEarly(row) \/ Cell(row, hCommittedMonthlyVol).t = "symbol"
\* body of jsonData.forEach of the legacy parser (lines 431-478), when it does not
\* throw
legacyRow(row, i, now, rRev, rVol) ==
  LET weekSource == CellOr(Cell(row, hExpectedStartLong),
                           CellOr(Cell(row, hExpectedStart), StrCell(sAugust)))
  IN  [week |-> getWeekFromMonth(weekSource, now),
       year |-> IntOr(parseInt(Cell(row, hYearOfEngagement)), CurrentYear(now)),
       account |-> StrOr(Cell(row, hAccountName), sAccountDash \o IntToStr(i)),
       industry |-> StrOr(Cell(row, hIndustry), sUnknown),
       area |-> StrOr(Cell(row, hArea), sUnknown),
       agent |-> StrOr(Cell(row, hSalesRep), sUnknown),
       status |-> StrOr(Cell(row, hSalesStage), sProspect),
       revenue |-> NumOr(legacyRevenueParsed(row),
                         NAdd(NMul(rRev, FromInt(LegacyRevDefaultSpan)),
                              FromInt(LegacyRevDefaultBase))),
       volume |-> NumOr(legacyVolumeParsed(row),
                        NAdd(NMul(rVol, FromInt(VolDefaultSpan)), FromInt(VolDefaultBase)))]

\* accountMap and the base totals of the legacy parser (lines 492-518)
legacyAccounts(data) ==
  LET firsts == SetToSeqAsc(firstOccurrences(data))
  IN  [a \in 1..Len(firsts) |->
        LET d == data[firsts[a]]
        IN  [id |-> a, name |-> d.account, industry |-> d.industry, area |-> d.area,
             agent |-> d.agent, status |-> d.status,
             baseRev |-> accountBaseRev(data, d.account),
             baseVol |-> accountBaseVol(data, d.account)]]

\* the object the legacy parser resolves with (lines 485-541)
legacyResult(data, fileColumns) ==
  [weekly |-> data,
   accounts |-> legacyAccounts(data),
   meta |-> [industries |-> SortStrings(FieldSet(data, "industry")),
             areas |-> SortStrings(FieldSet(data, "area")),
             agents |-> SortStrings(FieldSet(data, "agent")),
             statuses |-> SortStrings(FieldSet(data, "status")),
             year |-> SetMax(FieldSet(data, "year"))],
   info |-> [totalRows |-> Len(data),
             originalColumns |-> fileColumns,
             minWeek |-> SetMin(FieldSet(data, "week")),
             maxWeek |-> SetMax(FieldSet(data, "week")),
             years |-> SortYears(FieldSet(data, "year"))]]

legacyNeedFlags(rows) ==
  [k \in 1..(2 * Len(rows)) |->
     IF k % 2 = 1
     THEN /\ ~legacyRowThrowsEarly(rows[(k + 1) \div 2])
          /\ NumOr(legacyRevenueParsed(rows[(k + 1) \div 2]), Zero) = Zero
     ELSE /\ ~legacyRowThrows(rows[k \div 2])
          /\ NumOr(legacyVolumeParsed(rows[k \div 2]), Zero) = Zero]
\* the positions of the rows whose handler ran to its end, in row order
legacyKept(jsonData) ==
  SetToSeqAsc({i \in 1..Len(jsonData) : ~legacyRowThrows(jsonData[i])})
\* transformedData after jsonData.forEach (lines 429-478): a row that throws is
\* caught (line 475) and pushes nothing
legacyTransformedData(jsonData, kept, now, draws, flags) ==
  [a \in 1..Len(kept) |->
     legacyRow(jsonData[kept[a]], kept[a], now,
               DrawFor(draws, flags, 2 * kept[a] - 1),
               DrawFor(draws, flags, 2 * kept[a]))]

\* the end of reader.onload of the legacy parser (lines 480-541)
legacySettle(transformedData, fileColumns) ==
  IF Len(transformedData) = 0
  THEN Rejected("No valid data rows found after transformation", <<>>, {})
  ELSE Resolved(legacyResult(transformedData, fileColumns))
\* the row loop of reader.onload of the legacy parser (lines 428-478)
legacyTransform(jsonData, fileColumns, now, draws, flags) ==
  legacySettle(legacyTransformedData(jsonData, legacyKept(jsonData), now, draws, flags),
               fileColumns)
\* the column validation of the legacy parser (lines 418-426)
legacyValidate(jsonData, fileColumns, found, now, draws) ==
  IF Len(found) < LegacyThreshold
  THEN Rejected("Could not find enough expected columns", found, {})
  ELSE legacyTransform(jsonData, fileColumns, now, draws, legacyNeedFlags(jsonData))
\* reader.onload of the legacy parser (lines 401-546)
legacyOnload(file, now, draws) ==
  IF ~file.valid
  THEN Rejected("Failed to parse Excel file", <<>>, {})
  ELSE IF Len(file.rows) = 0
  THEN Rejected("Excel file is empty", <<>>, {})
  ELSE legacyValidate(file.rows, DOMAIN file.rows[1],
                      legacyFoundColumns(DOMAIN file.rows[1]), now, draws)

(***************************************************************************)
(* Inputs of the parsers: workbooks of at most MaxRows rows drawn from a   *)
(* fixed collection of rows, the clock, and the values Math.random() gives.*)
(***************************************************************************)
MaxRows == 2

RichRows ==
  {    (hAccountName :> StrCell(<<"A">>)) @@
    (hIndustry :> StrCell(<<"R","e","t","a","i","l">>)) @@
    (hSalesCategory :> StrCell(<<"S","M","E">>)) @@
    (hSalesStage :> StrCell(<<"W","o","n">>)) @@
    (hCity :> StrCell(<<"C","e","b","u">>)) @@
    (hTerritoryCode :> StrCell(<<"T","0","1">>)) @@
    (hSalesAgent :> StrCell(<<"C","r","u","z">>)) @@
    (hTeamDesignation :> StrCell(<<"N","C","R">>)) @@
    (hCommittedMonthlyVolume :> NumCell(869)) @@
    (hMonthlySalesForecast :> StrCell(<<"PESO","4",",","3","4","5">>)) @@
    (hForecastedMonth :> StrCell(<<"M","a","r","c","h">>)) @@
    (hForecastedYear :> NumCell(2025)) @@
    (hYearsOfEngagement :> NumCell(2)),

    (hAccountName :> StrCell(<<"A">>)) @@
    (hIndustry :> StrCell(<<"F","M","C","G">>)) @@
    (hSalesStage :> StrCell(<<"L","o","s","t">>)) @@
    (hSalesAgent :> StrCell(<<"C","r","u","z">>)) @@
    (hCommittedMonthlyVolume :> StrCell(<<"1",",","7","3","8">>)) @@
    (hMonthlySalesForecast :> NumCell(869)) @@
    (hForecastedMonth :> StrCell(<<"a","u","g">>)) @@
    (hForecastedYear :> StrCell(<<"2","0","2","6">>)) @@
    (hYearsOfEngagement :> StrCell(<<"-","2">>)),

    (hAccountName :> StrCell(<<"B">>)) @@
    (hIndustry :> StrCell(<<"F","M","C","G">>)) @@
    (hCommittedMonthlyVolume :> StrCell(<<"a","b","c">>)),

    (hIndustry :> StrCell(<<"R","e","t","a","i","l">>)) @@
    (hSalesAgent :> StrCell(<<"D","i","a","z">>)) @@
    (hCommittedMonthlyVolume :> StrCell(<<"8",".","6","9">>)) @@
    (hMonthlySalesForecast :> StrCell(<<"-","5">>)) @@
    (hForecastedMonth :> StrCell(<<"1","3">>)) @@
    (hForecastedYear :> StrCell(<<"a","b","c">>)) @@
    (hYearsOfEngagement :> StrCell(<<"0">>)),

    (hAccountName :> NumCell(7)) @@
    (hIndustry :> NumCell(0)) @@
    (hSalesStage :> StrCell(<<"W","o","n">>)) @@
    (hCommittedMonthlyVolume :> NumCell(0)) @@
    (hMonthlySalesForecast :> StrCell(<<"1","e","3">>)) @@
    (hForecastedMonth :> NumCell(12)) @@
    (hYearsOfEngagement :> StrCell(<<"1",".","5">>)),

    (<<"V","o","l","u","m","e">> :> NumCell(10)),

    (hCity :> StrCell(<<"C","e","b","u">>)),

    (<<"a","c","c","o","u","n","t"," ","n","a","m","e">> :> StrCell(<<"C">>)) @@
    (<<"i","n","d","u","s","t","r","y">> :> StrCell(<<"R","e","t","a","i","l">>)) @@
    (<<"s","a","l","e","s"," ","s","t","a","g","e">> :> StrCell(<<"W","o","n">>)),

    (hAccountName :> StrCell(<<"D">>)) @@
    (hIndustry :> SymCell) @@
    (hMonthlySalesForecast :> NumCell(100))}

LegacyRows ==
  {    (hAccountName :> StrCell(<<"A">>)) @@
    (hIndustry :> StrCell(<<"R","e","t","a","i","l">>)) @@
    (hSalesStage :> StrCell(<<"W","o","n">>)) @@
    (hArea :> StrCell(<<"N","C","R">>)) @@
    (hSalesRep :> StrCell(<<"C","r","u","z">>)) @@
    (hCommittedMonthlyVol :> NumCell(100)) @@
    (hMonthlySalesReportPrep :> StrCell(<<"1",",","2","0","0">>)) @@
    (hExpectedStart :> StrCell(<<"M","a","r","c","h">>)) @@
    (hYearOfEngagement :> NumCell(2025)),

    (hAccountName :> StrCell(<<"A">>)) @@
    (hIndustry :> StrCell(<<"F","M","C","G">>)) @@
    (hSalesStage :> StrCell(<<"L","o","s","t">>)) @@
    (hCommittedMonthlyVol :> StrCell(<<"-","3">>)) @@
    (hMonthlySalesReportPrep :> StrCell(<<"-","5","0","0">>)) @@
    (hExpectedStart :> StrCell(<<"Q","4">>)),

    (hAccountName :> StrCell(<<"B">>)) @@
    (hIndustry :> StrCell(<<"F","M","C","G">>)) @@
    (hSalesStage :> StrCell(<<"W","o","n">>)),

    (hAccountName :> StrCell(<<"B">>)) @@
    (hIndustry :> StrCell(<<"R","e","t","a","i","l">>)),

    (hIndustry :> StrCell(<<"R","e","t","a","i","l">>)) @@
    (hSalesStage :> StrCell(<<"W","o","n">>)) @@
    (hArea :> StrCell(<<"V","i","s","a","y","a","s">>)) @@
    (hMonthlySalesReportPrep :> StrCell(<<"PESO","1",",","0","0","0">>)) @@
    (hExpectedStartLong :> NumCell(5)) @@
    (hExpectedStart :> StrCell(<<"D","e","c","e","m","b","e","r">>)),

    (hAccountName :> StrCell(<<"C">>)) @@
    (hSalesStage :> StrCell(<<"W","o","n">>)) @@
    (hSalesRep :> StrCell(<<"D","i","a","z">>)) @@
    (hCommittedFYVolu :> NumCell(300)) @@
    (hExpectedStart :> StrCell(<<"D","E","C","E","M","B","E","R">>)) @@
    (hYearOfEngagement :> StrCell(<<"2","0","2","4">>)),

    (hAccountName :> StrCell(<<"D">>)) @@
    (hIndustry :> StrCell(<<"F","M","C","G">>)) @@
    (hSalesStage :> StrCell(<<"W","o","n">>)) @@
    (hCommittedMonthlyVol :> SymCell)}

RECURSIVE SeqsUpTo(_, _)
SeqsUpTo(S, n) ==
  IF n = 0 THEN {<<>>}
  ELSE LET shorter == SeqsUpTo(S, n - 1)
       IN  shorter \cup {Append(q, x) : q \in {r \in shorter : Len(r) = n - 1}, x \in S}

\* a file is unreadable, readable but not a workbook, or a workbook with rows
Files(rows) ==
  {[readable |-> FALSE, valid |-> FALSE, rows |-> <<>>],
   [readable |-> TRUE, valid |-> FALSE, rows |-> <<>>]}
  \cup {[readable |-> TRUE, valid |-> TRUE, rows |-> w] : w \in SeqsUpTo(rows, MaxRows)}

RichFiles == Files(RichRows)
LegacyFiles == Files(LegacyRows)

\* mid-August 2025; the last day of 2025; the first instant of 2024; the last day of 2022
Nows ==
  {[year |-> 2025, day |-> 226, frac |-> Frac(1, 2)],
   [year |-> 2025, day |-> 364, frac |-> Frac(1, 2)],
   [year |-> 2024, day |-> 0, frac |-> Zero],
   [year |-> 2022, day |-> 364, frac |-> Frac(3, 4)]}

SessionStart == CHOOSE d \in Nows : d.day = 226

\* values of Math.random(), in [0, 1)
RandomDraws == {Zero, Frac(1, 2)}

(***************************************************************************)
(* Dashboard (excelParser.js 1476-1576 and the Home component, 1601-1861;  *)
(* the earlier dashboard of sales_pipeline_scenario_lab_react_dashboard.jsx*)
(* has the same aggregate, groupByKey and applyScenario).                  *)
(***************************************************************************)
sAll == <<"a","l","l">>
sNA == <<"N","/","A">>
sRetail == <<"R","e","t","a","i","l">>
sFMCG == <<"F","M","C","G">>
sTechnology == <<"T","e","c","h","n","o","l","o","g","y">>
sNew == <<"N","e","w">>
sRenewal == <<"R","e","n","e","w","a","l">>
sManila == <<"M","a","n","i","l","a">>
sCebu == <<"C","e","b","u">>
sNCR == <<"N","C","R">>
sVisayas == <<"V","i","s","a","y","a","s">>
sT01 == <<"T","0","1">>
sT02 == <<"T","0","2">>
sCruz == <<"C","r","u","z">>
sFlores == <<"F","l","o","r","e","s">>
sWon == <<"W","o","n">>
sLost == <<"L","o","s","t">>

\* d[key]: a property the record does not have reads as undefined
Field(d, key) == IF key \in DOMAIN d THEN d[key] ELSE Undefined

MonthsPerYear == 12
\* weeklyToMonth(week) (lines 1479-1481)
weeklyToMonth(week) ==
  LET m == Ceil(NDiv(FromInt(week), WeeksPerMonth))
  IN  IF m < 1 THEN 1 ELSE IF m > MonthsPerYear THEN MonthsPerYear ELSE m

\* getMonthName(monthNum) (lines 1484-1490)
getMonthName(monthNum) ==
  IF monthNum \in 1..Len(weekMap) THEN weekMap[monthNum].k ELSE sUnknown

\* the records of data whose time key (week, or month of the week) is k, in order
inWeek(data, k) == SelectSeq(data, LAMBDA d : d.week = k)
inMonth(data, k) == SelectSeq(data, LAMBDA d : weeklyToMonth(d.week) = k)
\* the bucket by[k] after the loop: revenue and volume start at 0 and each record
\* of the bucket is added
weeklyBucket(data, k) ==
  [week |-> k,
   revenue |-> SumNum(Revenues(inWeek(data, k))),
   volume |-> SumNum(Volumes(inWeek(data, k)))]
\* a variant of monthlyBucket that assigns where the loop adds: the bucket keeps
\* its last record
monthlyBucketOverwrite(data, k) ==
  [month |-> k, monthName |-> getMonthName(k),
   revenue |-> inMonth(data, k)[Len(inMonth(data, k))].revenue,
   volume |-> inMonth(data, k)[Len(inMonth(data, k))].volume]
monthlyBucket(data, k) ==
  [month |-> k, monthName |-> getMonthName(k),
   revenue |-> SumNum(Revenues(inMonth(data, k))),
   volume |-> SumNum(Volumes(inMonth(data, k)))]
yearlyBucket(data) ==
  [year |-> IF data = <<>> \/ "year" \notin DOMAIN data[1]
            THEN sNA ELSE data[1].year,
   revenue |-> SumNum(Revenues(data)),
   volume |-> SumNum(Volumes(data))]

Periods == {"Weekly", "Monthly", "Yearly"}

\* aggregate(data, period) (lines 1492-1532): the buckets, sorted by time key
aggregate(data, period) ==
  IF period = "Weekly"
  THEN LET keys == SetToSeqAsc({data[i].week : i \in 1..Len(data)})
       IN  [b \in 1..Len(keys) |-> weeklyBucket(data, keys[b])]
  ELSE IF period = "Monthly"
  THEN LET keys == SetToSeqAsc({weeklyToMonth(data[i].week) : i \in 1..Len(data)})
       IN  [b \in 1..Len(keys) |-> monthlyBucket(data, keys[b])]
  ELSE <<yearlyBucket(data)>>

\* the records of data with d[key] = k
withKey(data, key, k) == SelectSeq(data, LAMBDA d : Field(d, key) = k)
\* the Map entry of k after data.forEach (lines 1536-1542)
keyBucket(data, key, k) ==
  (key :> k) @@ [revenue |-> SumNum(Revenues(withKey(data, key, k))),
                 volume |-> SumNum(Volumes(withKey(data, key, k)))]
\* positions of the first record of each distinct d[key], ascending: Map order
firstWithKey(data, key) ==
  {i \in 1..Len(data) : \A j \in 1..(i - 1) : Field(data[j], key) # Field(data[i], key)}
\* a variant of sortByRevenueDesc that puts the last of the buckets of equal
\* revenue first
RECURSIVE sortByRevenueDescLastTie(_)
sortByRevenueDescLastTie(s) ==
  IF s = <<>> THEN <<>>
  ELSE LET m == CHOOSE i \in 1..Len(s) :
                  /\ \A j \in 1..Len(s) : ~NLess(s[i].revenue, s[j].revenue)
                  /\ \A j \in (i + 1)..Len(s) : s[j].revenue # s[i].revenue
       IN  <<s[m]>> \o sortByRevenueDescLastTie(SubSeq(s, 1, m - 1)
                                                \o SubSeq(s, m + 1, Len(s)))
\* sort((a, b) => b.revenue - a.revenue): descending, ties keep their order
RECURSIVE sortByRevenueDesc(_)
sortByRevenueDesc(s) ==
  IF s = <<>> THEN <<>>
  ELSE LET m == CHOOSE i \in 1..Len(s) :
                  /\ \A j \in 1..Len(s) : ~NLess(s[i].revenue, s[j].revenue)
                  /\ \A j \in 1..(i - 1) : s[j].revenue # s[i].revenue
       IN  <<s[m]>> \o sortByRevenueDesc(SubSeq(s, 1, m - 1) \o SubSeq(s, m + 1, Len(s)))
\* groupByKey(data, key) (lines 1534-1544)
groupByKey(data, key) ==
  LET firsts == SetToSeqAsc(firstWithKey(data, key))
  IN  sortByRevenueDesc([b \in 1..Len(firsts) |->
                           keyBucket(data, key, Field(data[firsts[b]], key))])

\* statusByAgent(data) (lines 1550-1559).  map and its rows are plain objects: a
\* property Object.prototype gives every object reads as a truthy value that is
\* not a number.  (Writing through '__proto__' changes Object.prototype itself and
\* is not modelled: InheritedKeys leaves it out.)
sAgentKey == <<"a","g","e","n","t">>
InheritedKeys ==
  {<<"c","o","n","s","t","r","u","c","t","o","r">>, <<"t","o","S","t","r","i","n","g">>,
   <<"v","a","l","u","e","O","f">>}
\* the text an inherited function converts to, as one character
InheritedCell == StrCell(<<"FUNCTION">>)
\* map[a][s] as the row reads it
rowValue(row, s) ==
  IF s \in DOMAIN row THEN row[s] ELSE IF s \in InheritedKeys THEN InheritedCell ELSE NoCell
\* (map[a][s] || 0) + d.revenue: a number is added to, a non-empty string is
\* concatenated with the number's text
plusRevenue(cur, revenue) ==
  IF cur.t = "string" /\ Truthy(cur) THEN StrCell(cur.s \o NumToStr(revenue))
  ELSE [t |-> "number", s |-> <<>>, v |-> NAdd(cur.v, revenue)]
\* the row of agent a after the records recs of that agent, first to last
RECURSIVE agentRow(_, _)
agentRow(row, recs) ==
  IF recs = <<>> THEN row
  ELSE agentRow((recs[1].status :> plusRevenue(rowValue(row, recs[1].status),
                                               recs[1].revenue)) @@ row,
                Tail(recs))
\* a property name that is an array index: Object.values lists these first,
\* in ascending order
IsIndexKey(a) ==
  /\ a # <<>> /\ \A i \in 1..Len(a) : IsDigit(a[i])
  /\ Len(a) = 1 \/ a[1] # "0"
\* the positions of the records that create a row, in the order of Object.values
\* (the map is not given a row for an agent that names an inherited property:
\* !map[a] is false for it)
RECURSIVE rowOrder(_, _)
rowOrder(data, S) ==
  IF S = {} THEN <<>>
  ELSE LET m == CHOOSE i \in S : \A j \in S :
                  IF IsIndexKey(data[i].agent) = IsIndexKey(data[j].agent)
                  THEN IF IsIndexKey(data[i].agent)
                       THEN DigitsValue(data[i].agent, 0) <= DigitsValue(data[j].agent, 0)
                       ELSE i <= j
                  ELSE IsIndexKey(data[i].agent)
       IN  <<m>> \o rowOrder(data, S \ {m})
statusByAgent(data) ==
  LET firsts == rowOrder(data, {i \in firstWithKey(data, "agent") :
                                  data[i].agent \notin InheritedKeys})
  IN  [r \in 1..Len(firsts) |->
         agentRow((sAgentKey :> StrCell(data[firsts[r]].agent)),
                  withKey(data, "agent", data[firsts[r]].agent))]

\* 0.6, the share of the mix shift that reaches volume (line 1572)
MixShiftVolumeShare == Frac(3, 5)
PercentBase == 100
\* a variant of scenarioRecord that gives volume the whole mix shift
scenarioRecordFullVolume(d, opts) ==
  LET targeted == /\ opts.mixShiftIndustry # Null
                  /\ opts.mixShiftIndustry # <<>>
                  /\ Field(d, "industry") = opts.mixShiftIndustry
      factor == NAdd(One, NDiv(FromInt(opts.mixShiftPct), FromInt(PercentBase)))
      rev == NMul(d.revenue, opts.revenueMultiplier)
      vol == NMul(d.volume, opts.volumeMultiplier)
  IN  [d EXCEPT !.revenue = IF targeted THEN NMul(rev, factor) ELSE rev,
                !.volume = IF targeted THEN NMul(vol, factor) ELSE vol]
\* the record applyScenario returns for d (lines 1567-1574)
scenarioRecord(d, opts) ==
  LET targeted == /\ opts.mixShiftIndustry # Null
                  /\ opts.mixShiftIndustry # <<>>
                  /\ Field(d, "industry") = opts.mixShiftIndustry
      pct == NDiv(FromInt(opts.mixShiftPct), FromInt(PercentBase))
      rev == NMul(d.revenue, opts.revenueMultiplier)
      vol == NMul(d.volume, opts.volumeMultiplier)
  IN  [d EXCEPT !.revenue = IF targeted THEN NMul(rev, NAdd(One, pct)) ELSE rev,
                !.volume = IF targeted
                           THEN NMul(vol, NAdd(One, NDiv(NMul(FromInt(opts.mixShiftPct),
                                                             MixShiftVolumeShare),
                                                        FromInt(PercentBase))))
                           ELSE vol]
\* a variant of applyScenario that writes the adjusted figures into its argument
applyScenarioInPlace(data, opts) ==
  [data |-> [i \in 1..Len(data) |-> scenarioRecord(data[i], opts)],
   ret |-> [i \in 1..Len(data) |-> scenarioRecord(data[i], opts)]]
\* applyScenario(data, opts) (lines 1564-1576): ret is the array it returns and
\* data is the argument array as the call leaves it
applyScenario(data, opts) ==
  [data |-> data,
   ret |-> [i \in 1..Len(data) |-> scenarioRecord(data[i], opts)]]

FilterDims ==
  <<"industry", "salesCategory", "status", "city", "territoryCode", "agent", "area">>
\* a variant of passes without the last dimension, area
passesWithoutArea(item, flt) ==
  \A i \in 1..(Len(FilterDims) - 1) :
     flt[FilterDims[i]] = sAll \/ Field(item, FilterDims[i]) = flt[FilterDims[i]]
\* the predicate of data.filter in applyFilters (lines 1653-1664)
passes(item, flt) ==
  \A i \in 1..Len(FilterDims) :
     flt[FilterDims[i]] = sAll \/ Field(item, FilterDims[i]) = flt[FilterDims[i]]
\* applyFilters(data) with the filters of the current render (lines 1646-1674)
applyFilters(data, flt) == SelectSeq(data, LAMBDA item : passes(item, flt))

\* a variant of avgPerMonth without the guard: JavaScript's ytd / cutoff
avgPerMonthUnguarded(ytd, cutoff) ==
  IF cutoff = 0 THEN NaN
  ELSE IF cutoff < 0 THEN NNeg(NDiv(ytd, FromInt(-cutoff)))
  ELSE NDiv(ytd, FromInt(cutoff))
\* avgPerMonth and forecast of the Home component (lines 1736-1743)
avgPerMonth(ytd, cutoff) ==
  IF cutoff > 0 THEN NDiv(ytd, FromInt(cutoff)) ELSE Zero
forecast(ytd, cutoff, adjPct) ==
  NAdd(ytd, NMul(NMul(FromInt(MonthsPerYear - cutoff), avgPerMonth(ytd, cutoff)),
                 NAdd(One, NDiv(FromInt(adjPct), FromInt(PercentBase)))))
\* ytd: monthly.filter(m => m.month <= cutoff).reduce(...) (lines 1714-1719)
ytdOf(monthly, cutoff, f) ==
  SumNum([i \in 1..Len(SelectSeq(monthly, LAMBDA m : m.month <= cutoff)) |->
            SelectSeq(monthly, LAMBDA m : m.month <= cutoff)[i][f]])
\* mtd: monthly.find(m => m.month === cutoff)?.revenue ?? 0 (lines 1728-1731)
mtdOf(monthly, cutoff, f) ==
  IF \E i \in 1..Len(monthly) : monthly[i].month = cutoff
  THEN monthly[CHOOSE i \in 1..Len(monthly) : monthly[i].month = cutoff][f]
  ELSE Zero

(***************************************************************************)
(* Data of the dashboard.  generateSample(42, 2025) (lines 1358-1474) and  *)
(* the parsed workbook are represented by collections of a few records of  *)
(* the shape each of them pushes: the same fields, a few of the 52 weeks.  *)
(***************************************************************************)
thisYear == 2025
WeeklyRecord(week, account, industry, salesCategory, city, area, territoryCode, agent, status, revenue, volume, startMonth, yearsOfEngagement) ==
  [week |-> week, year |-> thisYear, account |-> account, industry |-> industry,
   salesCategory |-> salesCategory, city |-> city, area |-> area,
   territoryCode |-> territoryCode, agent |-> agent, status |-> status,
   revenue |-> revenue, volume |-> volume, startMonth |-> startMonth,
   startYear |-> thisYear, yearsOfEngagement |-> yearsOfEngagement,
   endYear |-> thisYear + yearsOfEngagement - 1]

sRetNc1 == <<"R","E","T","-","N","C","-","A","C","C","T","-","0","0","1">>
sFmcVi2 == <<"F","M","C","-","V","I","-","A","C","C","T","-","0","0","2">>
\* the value of generateSample(seed, thisYear): records as pushed at lines 1447-1464
\* and the meta of line 1472, whose lists are literals of the generator
SampleTY ==
  [weekly |->
     <<WeeklyRecord(1, sRetNc1, sRetail, sNew, sManila, sNCR, sT01, sCruz, sWon,
                    FromInt(1000), FromInt(10), 1, 1),
       WeeklyRecord(1, sFmcVi2, sFMCG, sRenewal, sCebu, sVisayas, sT02, sFlores, sLost,
                    Zero, Zero, 3, 2),
       WeeklyRecord(30, sRetNc1, sRetail, sNew, sManila, sNCR, sT01, sCruz, sWon,
                    Frac(1201, 2), FromInt(6), 1, 1),
       WeeklyRecord(30, sFmcVi2, sFMCG, sRenewal, sCebu, sVisayas, sT02, sFlores, sLost,
                    FromInt(400), FromInt(7), 3, 2)>>,
   meta |-> [industries |-> <<sRetail, sFMCG, sTechnology>>,
             salesCategories |-> <<sNew>>,
             cities |-> <<sManila>>,
             areas |-> <<sNCR, sVisayas>>,
             territoryCodes |-> <<sT01>>,
             agents |-> <<sCruz>>,
             statuses |-> <<sWon, sLost>>,
             year |-> thisYear]]

\* records of the shape the rich parser pushes (lines 239-256): text fields default
\* to 'Unknown' and 'Prospect', area is the team designation; the status is the
\* text of the 'Sales Stage' cell, whatever it is (line 115)
UploadedRecords ==
  {WeeklyRecord(1, <<"A">>, sRetail, sNew, sCebu, sNCR, sT01, sCruz, sWon,
                FromInt(1014), Frac(1014, 5), 1, 2),
   WeeklyRecord(52, <<"A">>, sFMCG, sUnknown, sUnknown, sUnknown, sUnknown, sCruz, sLost,
                Zero, Zero, 8, -2),
   WeeklyRecord(26, <<"B">>, sUnknown, sUnknown, sUnknown, sUnknown, sUnknown, sUnknown,
                sProspect, Frac(500000000, 4345), Frac(50000, 4345), 8, 1),
   WeeklyRecord(1, <<"C">>, sTechnology, sNew, sManila, sVisayas, sT02, sFlores,
                <<"a","g","e","n","t">>, FromInt(1014), FromInt(10), 1, 1)}
MaxRecs == 2
\* the values parseExcelFile can resolve with, as far as the dashboard reads them
UploadedData ==
  {[weekly |-> w, meta |-> richMeta(w)] :
     w \in SeqsUpTo(UploadedRecords, MaxRecs) \ {<<>>}}
\* messages parseExcelFile rejects with (two of them: the dashboard only stores the
\* text, which is kept as one token)
ParserErrors ==
  {<<"Excel file is empty">>, <<"Could not find enough expected columns">>}

(***************************************************************************)
(* The Home component (lines 1601-1861).  Each handler is followed by the  *)
(* render it causes, in which the adjustedTY memo (lines 1677-1685) is     *)
(* recomputed from the state.  baseTY is the object the baseTY memo holds, *)
(* scenarioData the constant of that name in the adjustedTY memo, and      *)
(* pristine a copy of baseTY's weekly records taken when it was produced.  *)
(* uploads lists the calls of handleFileUpload that are followed one by    *)
(* one, in the order in which their files were selected: whether the       *)
(* parser's promise has settled, and what it settled with.                 *)
(***************************************************************************)
VARIABLES variant, file, phase, now, outcome

parserVars == <<variant, file, phase, now, outcome>>

VARIABLES baseTY, isUsingUploadedData, uploadError,
          revenueMultiplier, volumeMultiplier, mixShiftIndustry, mixShiftPct,
          filters, period, monthCutoff, forecastAdjPct,
          scenarioData, adjustedTY, pristine, uploads

homeVars == <<baseTY, isUsingUploadedData, uploadError,
              revenueMultiplier, volumeMultiplier, mixShiftIndustry, mixShiftPct,
              filters, period, monthCutoff, forecastAdjPct,
              scenarioData, adjustedTY, pristine, uploads>>
scenarioVars == <<revenueMultiplier, volumeMultiplier, mixShiftIndustry, mixShiftPct>>
leverVars == <<period, monthCutoff, forecastAdjPct>>
dataVars == <<baseTY, isUsingUploadedData, uploadError, pristine>>

\* the positions of the sliders that the model visits
RevenueMultipliers == {One, Frac(3, 2)}
VolumeMultipliers == {One, Frac(5, 4)}
MixShiftPcts == {10, 20}
ForecastAdjPcts == {-50, 0, 10}
\* at most this many filter dimensions are narrowed at a time
MaxActiveFilters == 1

DefaultMixShiftPct == 10
\* the filters of useState (lines 1624-1632) and of handleFileUpload (1828-1836)
AllFilters ==
  [industry |-> sAll, salesCategory |-> sAll, status |-> sAll, city |-> sAll,
   territoryCode |-> sAll, agent |-> sAll, area |-> sAll]
\* the filters resetToSampleData sets (lines 1853-1860): no area property
ResetFilters == [AllFilters EXCEPT !.area = Undefined]
\* the list of baseTY.meta that the Select of a filter dimension offers
MetaKey ==
  [industry |-> "industries", salesCategory |-> "salesCategories",
   status |-> "statuses", city |-> "cities", territoryCode |-> "territoryCodes",
   agent |-> "agents", area |-> "areas"]
Offered(meta, dim) == {meta[MetaKey[dim]][i] : i \in 1..Len(meta[MetaKey[dim]])}
ActiveFilters(flt) == {dim \in DOMAIN flt : flt[dim] # sAll /\ flt[dim] # Undefined}

\* a variant of Render whose memo returns scenarioData as it is, as the dashboard
\* without filters does
RenderUnfiltered(base, rm, vm, industry, pct, flt) ==
  LET called == applyScenario(base.weekly,
                              [revenueMultiplier |-> rm, volumeMultiplier |-> vm,
                               mixShiftIndustry |-> industry, mixShiftPct |-> pct])
  IN  /\ baseTY' = [base EXCEPT !.weekly = called.data]
      /\ scenarioData' = called.ret
      /\ adjustedTY' = called.ret
\* the render after a state change: the adjustedTY memo (lines 1677-1685)
Render(base, rm, vm, industry, pct, flt) ==
  LET called == applyScenario(base.weekly,
                              [revenueMultiplier |-> rm, volumeMultiplier |-> vm,
                               mixShiftIndustry |-> industry, mixShiftPct |-> pct])
  IN  /\ baseTY' = [base EXCEPT !.weekly = called.data]
      /\ scenarioData' = called.ret
      /\ adjustedTY' = applyFilters(called.ret, flt)

HomeInit ==
  /\ baseTY = SampleTY
  /\ pristine = SampleTY.weekly
  /\ isUsingUploadedData = FALSE
  /\ uploadError = Null
  /\ revenueMultiplier = One
  /\ volumeMultiplier = One
  /\ mixShiftIndustry = Null
  /\ mixShiftPct = DefaultMixShiftPct
  /\ filters = AllFilters
  /\ period = "Monthly"
  /\ monthCutoff = CurrentMonth(now)
  /\ forecastAdjPct = 0
  /\ scenarioData = applyScenario(SampleTY.weekly,
                                 [revenueMultiplier |-> One, volumeMultiplier |-> One,
                                  mixShiftIndustry |-> Null,
                                  mixShiftPct |-> DefaultMixShiftPct]).ret
  /\ adjustedTY = applyFilters(scenarioData, AllFilters)
  /\ uploads = <<>>

SetRevenueMultiplier ==
  /\ \E v \in RevenueMultipliers :
       /\ revenueMultiplier' = v
       /\ Render(baseTY, v, volumeMultiplier, mixShiftIndustry, mixShiftPct, filters)
  /\ UNCHANGED <<isUsingUploadedData, uploadError, pristine, volumeMultiplier,
                 mixShiftIndustry, mixShiftPct, filters, leverVars, parserVars, uploads>>

SetVolumeMultiplier ==
  /\ \E v \in VolumeMultipliers :
       /\ volumeMultiplier' = v
       /\ Render(baseTY, revenueMultiplier, v, mixShiftIndustry, mixShiftPct, filters)
  /\ UNCHANGED <<isUsingUploadedData, uploadError, pristine, revenueMultiplier,
                 mixShiftIndustry, mixShiftPct, filters, leverVars, parserVars, uploads>>

\* the Select of line 1953: "none" or one of baseTY.meta.industries
SetMixShiftIndustry ==
  /\ \E v \in {Null} \cup Offered(baseTY.meta, "industry") :
       /\ mixShiftIndustry' = v
       /\ Render(baseTY, revenueMultiplier, volumeMultiplier, v, mixShiftPct, filters)
  /\ UNCHANGED <<isUsingUploadedData, uploadError, pristine, revenueMultiplier,
                 volumeMultiplier, mixShiftPct, filters, leverVars, parserVars, uploads>>

SetMixShiftPct ==
  /\ \E v \in MixShiftPcts :
       /\ mixShiftPct' = v
       /\ Render(baseTY, revenueMultiplier, volumeMultiplier, mixShiftIndustry, v, filters)
  /\ UNCHANGED <<isUsingUploadedData, uploadError, pristine, revenueMultiplier,
                 volumeMultiplier, mixShiftIndustry, filters, leverVars, parserVars, uploads>>

\* setFilters(prev => ({ ...prev, [dim]: v })) (lines 2032-2152)
SetFilter ==
  /\ \E dim \in DOMAIN AllFilters :
       \E v \in {sAll} \cup Offered(baseTY.meta, dim) :
          /\ Cardinality(ActiveFilters([filters EXCEPT ![dim] = v])) <= MaxActiveFilters
          /\ filters' = [filters EXCEPT ![dim] = v]
          /\ Render(baseTY, revenueMultiplier, volumeMultiplier, mixShiftIndustry,
                    mixShiftPct, [filters EXCEPT ![dim] = v])
  /\ UNCHANGED <<isUsingUploadedData, uploadError, pristine, scenarioVars, leverVars, parserVars, uploads>>

\* a variant of handleFileUpload that keeps the scenario settings and the filters
\* when the new dataset is installed
HandleFileUploadKeepingSettings ==
  \/ \E parsedData \in UploadedData :
       /\ uploadError' = Null
       /\ isUsingUploadedData' = TRUE
       /\ pristine' = parsedData.weekly
       /\ Render(parsedData, revenueMultiplier, volumeMultiplier, mixShiftIndustry,
                 mixShiftPct, filters)
       /\ UNCHANGED <<scenarioVars, filters, leverVars, parserVars, uploads>>
  \/ \E message \in ParserErrors :
       /\ uploadError' = message
       /\ isUsingUploadedData' = FALSE
       /\ pristine' = SampleTY.weekly
       /\ Render(SampleTY, revenueMultiplier, volumeMultiplier, mixShiftIndustry,
                 mixShiftPct, filters)
       /\ UNCHANGED <<scenarioVars, filters, leverVars, parserVars, uploads>>
\* handleFileUpload(file) (lines 1810-1841): the parser's promise has resolved
\* with parsedData, or has rejected with an error
HandleFileUpload ==
  \/ \E parsedData \in UploadedData :
       /\ uploadError' = Null
       /\ isUsingUploadedData' = TRUE
       /\ pristine' = parsedData.weekly
       /\ revenueMultiplier' = One
       /\ volumeMultiplier' = One
       /\ mixShiftIndustry' = Null
       /\ mixShiftPct' = DefaultMixShiftPct
       /\ filters' = AllFilters
       /\ Render(parsedData, One, One, Null, DefaultMixShiftPct, AllFilters)
       /\ UNCHANGED <<leverVars, parserVars, uploads>>
  \/ \E message \in ParserErrors :
       /\ uploadError' = message
       /\ isUsingUploadedData' = FALSE
       /\ pristine' = SampleTY.weekly
       /\ Render(SampleTY, revenueMultiplier, volumeMultiplier, mixShiftIndustry,
                 mixShiftPct, filters)
       /\ UNCHANGED <<scenarioVars, filters, leverVars, parserVars, uploads>>

\* resetToSampleData() (lines 1843-1861)
ResetToSampleData ==
  /\ isUsingUploadedData' = FALSE
  /\ uploadError' = Null
  /\ pristine' = SampleTY.weekly
  /\ revenueMultiplier' = One
  /\ volumeMultiplier' = One
  /\ mixShiftIndustry' = Null
  /\ mixShiftPct' = DefaultMixShiftPct
  /\ monthCutoff' = CurrentMonth(now)
  /\ forecastAdjPct' = 0
  /\ filters' = ResetFilters
  /\ Render(SampleTY, One, One, Null, DefaultMixShiftPct, ResetFilters)
  /\ UNCHANGED <<period, parserVars, uploads>>

\* at most this many files are selected in a session
MaxUploads == 2
\* a call of handleFileUpload waiting at await parseExcelFile(file)
InFlight == [done |-> FALSE, ok |-> FALSE, data |-> <<>>, message |-> Null]
\* FileUpload.handleFileChange (src/unnamed/part_000, lines 9-16) calls
\* handleFileUpload(file), which runs to its await: setUploadError(null) and the
\* call of parseExcelFile (lines 1810-1813)
SelectFile ==
  /\ Len(uploads) < MaxUploads
  /\ uploads' = Append(uploads, InFlight)
  /\ uploadError' = Null
  /\ UNCHANGED <<baseTY, isUsingUploadedData, pristine, scenarioVars, filters, leverVars,
                 scenarioData, adjustedTY, parserVars>>
\* the rest of the try block, when the promise of the i-th call resolves
\* (lines 1814-1836)
ParseResolves ==
  /\ \E i \in 1..Len(uploads) : \E parsedData \in UploadedData :
       /\ ~uploads[i].done
       /\ uploads' = [uploads EXCEPT ![i] = [done |-> TRUE, ok |-> TRUE,
                                              data |-> parsedData.weekly,
                                              message |-> Null]]
       /\ pristine' = parsedData.weekly
       /\ Render(parsedData, One, One, Null, DefaultMixShiftPct, AllFilters)
  /\ isUsingUploadedData' = TRUE
  /\ revenueMultiplier' = One
  /\ volumeMultiplier' = One
  /\ mixShiftIndustry' = Null
  /\ mixShiftPct' = DefaultMixShiftPct
  /\ filters' = AllFilters
  /\ UNCHANGED <<uploadError, leverVars, parserVars>>
\* the catch block, when the promise of the i-th call rejects (lines 1837-1840)
ParseRejects ==
  /\ \E i \in 1..Len(uploads) : \E message \in ParserErrors :
       /\ ~uploads[i].done
       /\ uploads' = [uploads EXCEPT ![i] = [done |-> TRUE, ok |-> FALSE,
                                              data |-> <<>>, message |-> message]]
       /\ uploadError' = message
  /\ isUsingUploadedData' = FALSE
  /\ pristine' = SampleTY.weekly
  /\ Render(SampleTY, revenueMultiplier, volumeMultiplier, mixShiftIndustry,
            mixShiftPct, filters)
  /\ UNCHANGED <<scenarioVars, filters, leverVars, parserVars>>
\* Reset is clicked while a file is being parsed
ResetDuringUpload == (\E i \in 1..Len(uploads) : ~uploads[i].done) /\ ResetToSampleData

\* the Tabs of line 1915 and the sliders of lines 1998 and 2011
SetPeriod ==
  /\ period' \in Periods
  /\ UNCHANGED <<dataVars, scenarioVars, filters, monthCutoff, forecastAdjPct, scenarioData,
                 adjustedTY, parserVars, uploads>>
SetMonthCutoff ==
  /\ monthCutoff' \in 1..MonthsPerYear
  /\ UNCHANGED <<dataVars, scenarioVars, filters, period, forecastAdjPct, scenarioData,
                 adjustedTY, parserVars, uploads>>
SetForecastAdjPct ==
  /\ forecastAdjPct' \in ForecastAdjPcts
  /\ UNCHANGED <<dataVars, scenarioVars, filters, period, monthCutoff, scenarioData,
                 adjustedTY, parserVars, uploads>>

\* the value the runtime test of the earlier dashboard derives,
\* (mixShiftIndustry ?? "none") === "none" ? null : mixShiftIndustry
\* (sales_pipeline_scenario_lab_react_dashboard.jsx, line 271)
sNone == <<"n","o","n","e">>
sentinelValue ==
  IF (IF mixShiftIndustry = Null THEN sNone ELSE mixShiftIndustry) = sNone
  THEN Null ELSE mixShiftIndustry

\* the values the Home component derives while rendering (lines 1688-1744)
seriesTY == aggregate(adjustedTY, period)
monthlyTY == aggregate(adjustedTY, "Monthly")
ytdRevenueTY == ytdOf(monthlyTY, monthCutoff, "revenue")
ytdVolumeTY == ytdOf(monthlyTY, monthCutoff, "volume")
mtdRevenueTY == mtdOf(monthlyTY, monthCutoff, "revenue")
mtdVolumeTY == mtdOf(monthlyTY, monthCutoff, "volume")
avgPerMonthRevTY == avgPerMonth(ytdRevenueTY, monthCutoff)
forecastRevenueTY == forecast(ytdRevenueTY, monthCutoff, forecastAdjPct)
avgPerMonthVolTY == avgPerMonth(ytdVolumeTY, monthCutoff)
forecastVolumeTY == forecast(ytdVolumeTY, monthCutoff, forecastAdjPct)

(***************************************************************************)
(* One invocation of parseExcelFile: the promise is pending from the call  *)
(* until the FileReader fires onload or onerror, which settles it.         *)
(***************************************************************************)
ParserInit ==
  /\ variant = "rich"
  /\ file = [readable |-> FALSE, valid |-> FALSE, rows |-> <<>>]
  /\ phase = "idle"
  /\ outcome = Pending

\* parseExcelFile(file): a new promise, reader.readAsArrayBuffer(file)
ParseExcelFile ==
  /\ phase \in {"idle", "settled"}
  /\ \E v \in {"rich", "legacy"} :
       /\ variant' = v
       /\ file' \in (IF v = "rich" THEN RichFiles ELSE LegacyFiles)
  /\ phase' = "reading"
  /\ outcome' = Pending
  /\ UNCHANGED <<now, homeVars>>

\* reader.onload of the rich parser
RichOnload ==
  /\ phase = "reading" /\ variant = "rich" /\ file.readable
  /\ \E draws \in [1..CountTrue(richNeedFlags(file.rows), 2 * Len(file.rows))
                     -> RandomDraws] :
       outcome' = richOnload(file, now, draws)
  /\ phase' = "settled"
  /\ UNCHANGED <<variant, file, now, homeVars>>

\* reader.onload of the legacy parser
LegacyOnload ==
  /\ phase = "reading" /\ variant = "legacy" /\ file.readable
  /\ \E draws \in [1..CountTrue(legacyNeedFlags(file.rows), 2 * Len(file.rows))
                     -> RandomDraws] :
       outcome' = legacyOnload(file, now, draws)
  /\ phase' = "settled"
  /\ UNCHANGED <<variant, file, now, homeVars>>

\* reader.onerror (lines 354-356 and 548-550)
ReaderOnerror ==
  /\ phase = "reading" /\ ~file.readable
  /\ outcome' = Rejected("Failed to read file", <<>>, {})
  /\ phase' = "settled"
  /\ UNCHANGED <<variant, file, now, homeVars>>

vars == <<parserVars, homeVars>>

\* the parsers, with the dashboard at rest; new Date() reads the clock of the
\* session, which a behaviour fixes at one of the instants of Nows
Init == now \in Nows /\ ParserInit /\ HomeInit
Next == ParseExcelFile \/ RichOnload \/ LegacyOnload \/ ReaderOnerror
Spec == Init /\ [][Next]_vars

\* the dashboard opened in mid-August
InitHome == now = SessionStart /\ ParserInit /\ HomeInit
\* the dashboard's data path: scenario, filters, upload and reset
NextDash ==
  \/ SetRevenueMultiplier \/ SetVolumeMultiplier \/ SetMixShiftIndustry
  \/ SetMixShiftPct \/ SetFilter \/ HandleFileUpload \/ ResetToSampleData
SpecDash == InitHome /\ [][NextDash]_vars

\* the dashboard's comparison panel: period, month cutoff and forecast adjustment
NextForecast ==
  \/ SetPeriod \/ SetMonthCutoff \/ SetForecastAdjPct
  \/ HandleFileUpload \/ ResetToSampleData
SpecForecast == InitHome /\ [][NextForecast]_vars

\* uploads whose parsing overlaps: files are selected while earlier ones are still
\* being parsed, and the promises settle in any order
NextUploads == SelectFile \/ ParseResolves \/ ParseRejects \/ ResetDuringUpload
SpecUploads == InitHome /\ [][NextUploads]_vars

\* the texts of the start column: the twelve month names as monthMap spells them,
\* and each in lower case followed by a year
sYearSuffix == <<" ","2","0","2","5">>
StartTexts ==
  {weekMap[m].k : m \in 1..Len(weekMap)}
    \cup {toLowerCase(weekMap[m].k) \o sYearSuffix : m \in 1..Len(weekMap)}
\* a row of a legacy workbook with all its columns filled and the given start text
StartRow(text) ==
  (hAccountName :> StrCell(<<"A">>)) @@
  (hIndustry :> StrCell(sRetail)) @@
  (hSalesStage :> StrCell(sWon)) @@
  (hArea :> StrCell(sNCR)) @@
  (hSalesRep :> StrCell(sCruz)) @@
  (hCommittedMonthlyVol :> NumCell(100)) @@
  (hMonthlySalesReportPrep :> StrCell(<<"1",",","2","0","0">>)) @@
  (hExpectedStart :> StrCell(text)) @@
  (hYearOfEngagement :> NumCell(2025))
StartFiles ==
  {[readable |-> TRUE, valid |-> TRUE, rows |-> <<StartRow(text)>>] : text \in StartTexts}
\* parseExcelFile(file) of the legacy parser on a workbook of StartFiles
ParseStartFile ==
  /\ phase \in {"idle", "settled"}
  /\ variant' = "legacy"
  /\ file' \in StartFiles
  /\ phase' = "reading"
  /\ outcome' = Pending
  /\ UNCHANGED <<now, homeVars>>
\* the legacy parser on rows that name their start month
NextStart == ParseStartFile \/ LegacyOnload
SpecStart == Init /\ [][NextStart]_vars

\* one invocation of a parser, followed from its call to the end: each call makes
\* its own FileReader and promise (lines 51-52, 398-399), and the FileReader ends
\* the read it was asked for (lines 358, 552) by firing load or error
FirstParseExcelFile == phase = "idle" /\ ParseExcelFile
NextSettle == FirstParseExcelFile \/ RichOnload \/ LegacyOnload \/ ReaderOnerror
\* a readable file is being read: the condition under which the onload handler of
\* variant v can run; the handler always ends by settling the promise, so this is
\* ENABLED <<RichOnload>>_vars (ENABLED <<LegacyOnload>>_vars) written out
OnloadDue(v) == phase = "reading" /\ variant = v /\ file.readable
\* the step of the onload handler of variant v as phase shows it: of the actions
\* of NextSettle only RichOnload (LegacyOnload) can be taken where OnloadDue holds
OnloadStep(v) == OnloadDue(v) /\ phase' = "settled"
\* weak fairness of the two onload handlers, WF_vars(A) spelled out as
\* []<>~ENABLED <<A>>_vars \/ []<><<A>>_vars with OnloadDue for ENABLED and
\* OnloadStep for the step
OnloadFairness ==
  /\ []<>(~OnloadDue("rich")) \/ []<><<OnloadStep("rich")>>_vars
  /\ []<>(~OnloadDue("legacy")) \/ []<><<OnloadStep("legacy")>>_vars
SpecSettle ==
  Init /\ [][NextSettle]_vars /\ OnloadFairness /\ WF_vars(ReaderOnerror)

(***************************************************************************)
(* Properties of the parsers (specification Spec)                          *)
(***************************************************************************)
RichResolved == phase = "settled" /\ variant = "rich" /\ outcome.kind = "resolved"
LegacyResolved == phase = "settled" /\ variant = "legacy" /\ outcome.kind = "resolved"
BaseRevs(accounts) == [a \in 1..Len(accounts) |-> accounts[a].baseRev]
BaseVols(accounts) == [a \in 1..Len(accounts) |-> accounts[a].baseVol]

\* C1: in every result the rich parser resolves with, the revenue of the weekly
\* records sums to the baseRev of the accounts, and the volume to the baseVol,
\* also when several rows share an account name.  (Sums are exact here; the
\* program's floating-point additions are made in a different order.)
C1_TotalsReconcile ==
  RichResolved =>
    /\ SumNum(Revenues(outcome.result.weekly)) = SumNum(BaseRevs(outcome.result.accounts))
    /\ SumNum(Volumes(outcome.result.weekly)) = SumNum(BaseVols(outcome.result.accounts))
\* two rows with the same account name were expanded and both earn revenue
C1_Witness ==
  /\ RichResolved
  /\ Len(richKept(file.rows)) = 2
  /\ Len(outcome.result.accounts) = 1
  /\ \E k \in 1..Len(outcome.result.weekly) :
       /\ k % 2 = 1
       /\ NPositive(outcome.result.weekly[k].revenue)
       /\ NPositive(outcome.result.weekly[k + 1].revenue)

\* the monthly amounts a row can have: the parsed cell, or 500000 + random * 2000000
\* (50 + random * 500 for volume) when the cell gives no positive number
RowRevenues(row) ==
  IF richAmount(Cell(row, hMonthlySalesForecast), {"PESO", ",", " "}) # Zero
  THEN {richAmount(Cell(row, hMonthlySalesForecast), {"PESO", ",", " "})}
  ELSE {NAdd(FromInt(RevDefaultBase), NMul(r, FromInt(RevDefaultSpan))) : r \in RandomDraws}
RowVolumes(row) ==
  IF richAmount(Cell(row, hCommittedMonthlyVolume), {",", " "}) # Zero
  THEN {richAmount(Cell(row, hCommittedMonthlyVolume), {",", " "})}
  ELSE {NAdd(FromInt(VolDefaultBase), NMul(r, FromInt(VolDefaultSpan))) : r \in RandomDraws}
\* the record of week w for the i-th of n processed rows (the expansion is week-major)
RecordOf(weekly, n, i, w) == weekly[(w - 1) * n + i]
OutsideWindow(d) == weekMonth(d.week) < d.startMonth \/ d.year > d.endYear

\* C2: in the rich parser's expansion every processed row has one record per week
\* 1..52;
\* the record has revenue = volume = 0 when ceil(w/4.345) < startMonth or its
\* year > endYear, and otherwise revenue = (monthlyRevenue/4.345)*seasonal(w) and
\* volume = (monthlyVolume/4.345)*seasonal(w), seasonal(w) being strictly positive.
C2_RampWindow ==
  RichResolved =>
    /\ Len(outcome.result.weekly) = WeeksPerYear * Len(richKept(file.rows))
    /\ \A w \in 1..WeeksPerYear : NPositive(seasonalFactor(w))
    /\ \A a \in 1..Len(richKept(file.rows)) :
         \E mr \in RowRevenues(file.rows[richKept(file.rows)[a]]),
            mv \in RowVolumes(file.rows[richKept(file.rows)[a]]) :
            \A w \in 1..WeeksPerYear :
               LET d == RecordOf(outcome.result.weekly, Len(richKept(file.rows)), a, w)
               IN  /\ d.week = w
                   /\ IF OutsideWindow(d)
                      THEN d.revenue = Zero /\ d.volume = Zero
                      ELSE /\ d.revenue = NMul(NDiv(mr, WeeksPerMonth), seasonalFactor(w))
                           /\ d.volume = NMul(NDiv(mv, WeeksPerMonth), seasonalFactor(w))
\* a result with a record before its start month, a record past its end year and
\* a record inside its window
C2_Witness ==
  /\ RichResolved
  /\ \E k \in 1..Len(outcome.result.weekly) :
       LET d == outcome.result.weekly[k]
       IN  weekMonth(d.week) < d.startMonth /\ d.year <= d.endYear /\ d.revenue = Zero
  /\ \E k \in 1..Len(outcome.result.weekly) :
       LET d == outcome.result.weekly[k]
       IN  weekMonth(d.week) >= d.startMonth /\ d.year > d.endYear /\ d.volume = Zero
  /\ \E k \in 1..Len(outcome.result.weekly) :
       LET d == outcome.result.weekly[k]
       IN  ~OutsideWindow(d) /\ NPositive(d.revenue) /\ NPositive(d.volume)

\* C3: every weekly record either parser resolves with has an integer week in
\* 1..52, whatever the cells and the current date, legacy rows that take the
\* date-derived default week included; and ceil(w/4.345) is in 1..12 for w in 1..52.
C3_WeekInRange ==
  /\ \A w \in 1..WeeksPerYear : weekMonth(w) \in 1..MonthsPerYear
  /\ (phase = "settled" /\ outcome.kind = "resolved") =>
       \A k \in 1..Len(outcome.result.weekly) :
          outcome.result.weekly[k].week \in 1..WeeksPerYear

\* C10: the parser rejects with the insufficient-columns error whenever fewer
\* canonical headers than the threshold are matched; in particular a workbook whose
\* first row has a single header is rejected, whatever the header's text.
C10_SingleHeaderRejected ==
  (phase = "settled" /\ file.readable /\ file.valid /\ Len(file.rows) > 0
     /\ Cardinality(DOMAIN file.rows[1]) = 1) =>
    /\ outcome.kind = "rejected"
    /\ outcome.error.msg = "Could not find enough expected columns"

\* the canonical headers of a mapping that some present header contains or is
\* contained in, letter case ignored
MatchedIgnoringCase(mapping, fileColumns) ==
  FilterSeq(mapping,
            {col \in {mapping[i] : i \in 1..Len(mapping)} :
               \E fileCol \in fileColumns :
                  \/ includes(toLowerCase(fileCol), toLowerCase(col))
                  \/ includes(toLowerCase(col), toLowerCase(fileCol))})
ParsedRows == phase = "settled" /\ file.readable /\ file.valid /\ Len(file.rows) > 0

\* C11: in both parsers the canonical headers counted as found for a workbook are
\* exactly those that some header of the first row contains or is contained in,
\* compared case-insensitively; so a header differing from a canonical one only in
\* letter case, or a proper substring or superstring of it, is counted.
C11_CaseInsensitiveSubstringMatch ==
  ParsedRows =>
    IF variant = "rich"
    THEN foundColumns(DOMAIN file.rows[1])
           = MatchedIgnoringCase(COLUMN_MAPPING, DOMAIN file.rows[1])
    ELSE legacyFoundColumns(DOMAIN file.rows[1])
           = MatchedIgnoringCase(LEGACY_COLUMN_MAPPING, DOMAIN file.rows[1])

\* the English month names, January first
EnglishMonths ==
  <<<<"j","a","n","u","a","r","y">>,
    <<"f","e","b","r","u","a","r","y">>,
    <<"m","a","r","c","h">>,
    <<"a","p","r","i","l">>,
    <<"m","a","y">>,
    <<"j","u","n","e">>,
    <<"j","u","l","y">>,
    <<"a","u","g","u","s","t">>,
    <<"s","e","p","t","e","m","b","e","r">>,
    <<"o","c","t","o","b","e","r">>,
    <<"n","o","v","e","m","b","e","r">>,
    <<"d","e","c","e","m","b","e","r">>>>
UpperChar(c) ==
  IF \E i \in 1..26 : LowerChars[i] = c
  THEN UpperChars[CHOOSE i \in 1..26 : LowerChars[i] = c]
  ELSE c
\* a name in lower case, in upper case and capitalised, full and abbreviated
Spellings(name) ==
  LET upper == [i \in 1..Len(name) |-> UpperChar(name[i])]
      capital == [i \in 1..Len(name) |-> IF i = 1 THEN UpperChar(name[i]) ELSE name[i]]
  IN  {name, upper, capital,
       SubSeq(name, 1, 3), SubSeq(upper, 1, 3), SubSeq(capital, 1, 3)}
HasMonthName(text) ==
  \E m \in 1..12 : includes(toLowerCase(text), SubSeq(EnglishMonths[m], 1, 3))
\* a month cell that is absent, empty, or gives neither a month name nor an
\* integer in 1..12
NoMonthIn(c) ==
  \/ c.t = "undefined"
  \/ c.t = "string" /\ c.s = <<>>
  \/ /\ c.t = "string" /\ c.s # <<>> /\ ~HasMonthName(c.s)
     /\ (parseInt(c).nan \/ parseInt(c).v \notin 1..12)

\* C12: parseMonthFromText gives the month number for every abbreviated or full
\* English month name in any letter case ('August' gives 8) and gives n for input
\* without a month name that parses as an integer n in 1..12; and in a result of the
\* rich parser, a row whose 'Forecasted TXN Start (Month)' cell is absent, empty or
\* unparseable has startMonth equal to the current calendar month.
C12_MonthParsing ==
  /\ \A m \in 1..12 : \A text \in Spellings(EnglishMonths[m]) :
        parseMonthFromText(StrCell(text), now) = m
  /\ parseMonthFromText(StrCell(sAugust), now) = 8
  /\ \A n \in 1..12 :
        /\ parseMonthFromText(StrCell(IntToStr(n)), now) = n
        /\ parseMonthFromText(NumCell(n), now) = n
  /\ RichResolved =>
        \A a \in 1..Len(richKept(file.rows)) :
           NoMonthIn(Cell(file.rows[richKept(file.rows)[a]], hForecastedMonth)) =>
             RecordOf(outcome.result.weekly, Len(richKept(file.rows)), a, 1).startMonth
               = CurrentMonth(now)

EngagementWindow(d) ==
  /\ d.yearsOfEngagement >= 1
  /\ d.endYear = d.startYear + d.yearsOfEngagement - 1
  /\ d.endYear >= d.startYear

\* C13: every account and every weekly record the rich parser resolves with has
\* yearsOfEngagement >= 1 and endYear = startYear + yearsOfEngagement - 1, hence
\* endYear >= startYear, whatever the 'Years of Engagement' cell holds (zero,
\* negative, fractional and non-numeric values included).
C13_EngagementWindow ==
  RichResolved =>
    /\ \A k \in 1..Len(outcome.result.weekly) : EngagementWindow(outcome.result.weekly[k])
    /\ \A a \in 1..Len(outcome.result.accounts) : EngagementWindow(outcome.result.accounts[a])

\* an amount cell that is absent, empty, non-numeric, zero or negative
NoAmountIn(c, strip) ==
  \/ c.t = "undefined"
  \/ c.t = "string" /\ c.s = <<>>
  \/ IsNaN(parseFloatStr(StripChars(ToStr(c), strip)))
  \/ ~NPositive(parseFloatStr(StripChars(ToStr(c), strip)))
Between(lo, m, hi) == ~IsNaN(m) /\ NLeq(FromInt(lo), m) /\ NLeq(m, FromInt(hi))
\* the monthly amount a weekly amount of week w was made from
MonthlyOf(weeklyAmount, w) == NDiv(NMul(weeklyAmount, WeeksPerMonth), seasonalFactor(w))
\* values of Math.random() from the low end, the middle and the high end of [0, 1)
FallbackDraws == {Zero, Frac(1, 2), Frac(999, 1000)}
RichRowOf(a) == file.rows[richKept(file.rows)[a]]

\* C14: in the rich parser a row whose 'Monthly Sales Forecast' cell is absent,
\* empty, non-numeric, zero or negative still yields a complete account, with a
\* fallback monthly revenue in [500000, 2500000]; a row with such a 'Committed
\* Monthly Volume' cell gets a monthly volume in [50, 550]; no amount is NaN or
\* negative.
C14_FallbackAmounts ==
  RichResolved =>
    \A a \in 1..Len(richKept(file.rows)) :
       LET n == Len(richKept(file.rows))
           noRevenue == NoAmountIn(Cell(RichRowOf(a), hMonthlySalesForecast), {"PESO", ",", " "})
           noVolume == NoAmountIn(Cell(RichRowOf(a), hCommittedMonthlyVolume), {",", " "})
       IN  /\ \E acc \in 1..Len(outcome.result.accounts) :
                outcome.result.accounts[acc].name
                  = RecordOf(outcome.result.weekly, n, a, 1).account
           /\ \A w \in 1..WeeksPerYear :
                LET d == RecordOf(outcome.result.weekly, n, a, w)
                IN  /\ d.week = w
                    /\ ~IsNaN(d.revenue) /\ NLeq(Zero, d.revenue)
                    /\ ~IsNaN(d.volume) /\ NLeq(Zero, d.volume)
                    /\ (noRevenue /\ ~OutsideWindow(d)) =>
                         Between(RevDefaultBase, MonthlyOf(d.revenue, w),
                                 RevDefaultBase + RevDefaultSpan)
                    /\ (noVolume /\ ~OutsideWindow(d)) =>
                         Between(VolDefaultBase, MonthlyOf(d.volume, w),
                                 VolDefaultBase + VolDefaultSpan)
           /\ \A r \in FallbackDraws :
                LET acc == richRow(RichRowOf(a), richKept(file.rows)[a], now, r, r)
                IN  /\ noRevenue => Between(RevDefaultBase, acc.monthlyRevenue,
                                            RevDefaultBase + RevDefaultSpan)
                    /\ noVolume => Between(VolDefaultBase, acc.monthlyVolume,
                                           VolDefaultBase + VolDefaultSpan)
                    /\ NPositive(acc.monthlyRevenue) /\ NPositive(acc.monthlyVolume)
\* a row with a negative revenue cell and a row without volume cell, each with a
\* record that earns the fallback amount
C14_Witness ==
  /\ RichResolved
  /\ \E a \in 1..Len(richKept(file.rows)) :
       /\ Cell(RichRowOf(a), hMonthlySalesForecast).t = "string"
       /\ NLess(parseFloat(Cell(RichRowOf(a), hMonthlySalesForecast)), Zero)
       /\ \E w \in 1..WeeksPerYear :
            NPositive(RecordOf(outcome.result.weekly, Len(richKept(file.rows)), a, w).revenue)
  /\ \E a \in 1..Len(richKept(file.rows)) :
       /\ Cell(RichRowOf(a), hCommittedMonthlyVolume).t = "undefined"
       /\ \E w \in 1..WeeksPerYear :
            NPositive(RecordOf(outcome.result.weekly, Len(richKept(file.rows)), a, w).volume)

\* C15: every weekly record of a result either parser resolves with has
\* revenue >= 0 and volume >= 0, whatever the cells hold (negative numbers and text
\* that parses to a negative number included).
C15_NonNegativeAmounts ==
  (phase = "settled" /\ outcome.kind = "resolved") =>
    \A k \in 1..Len(outcome.result.weekly) :
       /\ ~IsNaN(outcome.result.weekly[k].revenue)
       /\ NLeq(Zero, outcome.result.weekly[k].revenue)
       /\ ~IsNaN(outcome.result.weekly[k].volume)
       /\ NLeq(Zero, outcome.result.weekly[k].volume)

RowThrows(i) ==
  IF variant = "rich" THEN richRowThrows(file.rows[i]) ELSE legacyRowThrows(file.rows[i])
\* the positions of the rows whose processing did not throw, ascending
Survivors == SetToSeqAsc({i \in 1..Len(file.rows) : ~RowThrows(i)})
RecordsPerRow == IF variant = "rich" THEN WeeksPerYear ELSE 1
ColumnsAccepted ==
  ParsedRows /\ outcome.error.msg # "Could not find enough expected columns"

\* C16: when the processing of a row throws, that row alone is skipped: the result
\* has the records of exactly the rows that did not throw, in row order (52 per row
\* in the rich parser, one in the legacy parser), each named after its row; and
\* when every row throws the promise is rejected with the no-valid-rows error
\* rather than resolved with an empty dataset.
C16_RowFailureIsolated ==
  ColumnsAccepted =>
    IF Survivors = <<>>
    THEN /\ outcome.kind = "rejected"
         /\ outcome.error.msg = "No valid data rows found after transformation"
    ELSE /\ outcome.kind = "resolved"
         /\ Len(outcome.result.weekly) = RecordsPerRow * Len(Survivors)
         /\ \A a \in 1..Len(Survivors) : \A w \in 1..RecordsPerRow :
              RecordOf(outcome.result.weekly, Len(Survivors), a, w).account
                = StrOr(Cell(file.rows[Survivors[a]], hAccountName),
                        sAccountDash \o IntToStr(Survivors[a]))
\* the first of two rows threw and the second was processed
C16_Witness ==
  /\ ColumnsAccepted
  /\ Len(file.rows) = 2
  /\ RowThrows(1)
  /\ Survivors = <<2>>
  /\ outcome.kind = "resolved"
  /\ outcome.result.weekly # <<>>

\* the errors a parser rejects with
ParserRejections ==
  {"Excel file is empty", "Could not find enough expected columns",
   "No valid data rows found after transformation", "Failed to parse Excel file",
   "Failed to read file"}
NonEmptyLists(meta, keys) == \A key \in keys : meta[key] # <<>>
\* a result with weekly, accounts, meta and info all populated
CompleteResult(result) ==
  /\ result.weekly # <<>>
  /\ result.accounts # <<>>
  /\ \A k \in 1..Len(result.weekly) :
       \E a \in 1..Len(result.accounts) : result.accounts[a].name = result.weekly[k].account
  /\ NonEmptyLists(result.meta, {"industries", "areas", "agents", "statuses"})
  /\ result.meta.year \in {result.weekly[k].year : k \in 1..Len(result.weekly)}
  /\ result.info.totalRows = Len(result.weekly)
  /\ result.info.originalColumns = DOMAIN file.rows[1]
  /\ result.info.minWeek <= result.info.maxWeek
  /\ result.info.years # <<>>
SettledOnce ==
  /\ phase \in {"idle", "reading"} => outcome = Pending
  /\ phase = "settled" =>
       \/ outcome.kind = "resolved" /\ outcome.error = NoError
                                    /\ CompleteResult(outcome.result)
       \/ outcome.kind = "rejected" /\ outcome.error.msg \in ParserRejections
                                    /\ outcome.result = NoResult
\* a settled promise keeps its value until parseExcelFile is called again
StaysSettled ==
  phase = "settled" => (outcome' = outcome /\ phase' = "settled") \/ phase' = "reading"

\* C17: every invocation of parseExcelFile settles its promise exactly once: the
\* promise is pending until the read ends, is then settled, either resolved with
\* a complete result (weekly, accounts, meta and info populated) or rejected with
\* one of the five errors and no dataset, never both, and keeps that value.
C17_SettlesExactlyOnce ==
  /\ []SettledOnce
  /\ [][StaysSettled]_vars
  /\ (phase = "reading") ~> (phase = "settled")
\* a read has ended and the promise is resolved with the records of two accounts
C17_Witness ==
  /\ phase = "settled"
  /\ outcome.kind = "resolved"
  /\ CompleteResult(outcome.result)
  /\ Len(outcome.result.accounts) = 2

\* the values Math.random() can return to one invocation on the file read last:
\* one value for every default the rows need
DrawSequences ==
  [1..CountTrue(IF variant = "rich" THEN richNeedFlags(file.rows)
                                     ELSE legacyNeedFlags(file.rows),
                2 * Len(file.rows)) -> RandomDraws]
\* what an invocation on the same content at the same date settles with
Reparse(draws) ==
  IF variant = "rich" THEN richOnload(file, now, draws) ELSE legacyOnload(file, now, draws)
\* C18: two invocations of a parser on the same workbook content at the same date
\* produce identical results: whatever an invocation settled with, every other
\* invocation on that content at that date settles with the same value, generated
\* default amounts included.
C18_Reproducible ==
  (phase = "settled" /\ file.readable) =>
    \A draws \in DrawSequences : Reparse(draws) = outcome

\* a cell that holds a non-empty string
IsText(c) == c.t = "string" /\ c.s # <<>>
\* the text fields of a record other than the account name: the record's field,
\* the header it is read from and its default
TextFieldsOf(v) ==
  IF v = "rich"
  THEN {<<"industry", hIndustry, sUnknown>>, <<"salesCategory", hSalesCategory, sUnknown>>,
        <<"city", hCity, sUnknown>>, <<"territoryCode", hTerritoryCode, sUnknown>>,
        <<"agent", hSalesAgent, sUnknown>>, <<"status", hSalesStage, sProspect>>,
        <<"area", hTeamDesignation, sUnknown>>}
  ELSE {<<"industry", hIndustry, sUnknown>>, <<"area", hArea, sUnknown>>,
        <<"agent", hSalesRep, sUnknown>>, <<"status", hSalesStage, sProspect>>}
\* C19: in the records of every processed row, a text field whose cell is absent,
\* empty or not a string (a number, say) has the fixed default: 'Unknown',
\* 'Prospect' for the status, 'Account-' and the row's 1-based index for the
\* account name.
C19_TextDefaults ==
  (ColumnsAccepted /\ outcome.kind = "resolved") =>
    \A a \in 1..Len(Survivors) :
      /\ ~IsText(Cell(file.rows[Survivors[a]], hAccountName)) =>
           RecordOf(outcome.result.weekly, Len(Survivors), a, 1).account
             = sAccountDash \o IntToStr(Survivors[a])
      /\ \A f \in TextFieldsOf(variant) :
           ~IsText(Cell(file.rows[Survivors[a]], f[2])) =>
             RecordOf(outcome.result.weekly, Len(Survivors), a, 1)[f[1]] = f[3]

\* the account name of the row at position i
RowName(i) == StrOr(Cell(file.rows[i], hAccountName), sAccountDash \o IntToStr(i))
\* the processed rows that are the first to carry their account name, in row order
FirstCarriers ==
  SelectSeq(Survivors,
            LAMBDA i : \A j \in 1..(i - 1) : RowThrows(j) \/ RowName(j) # RowName(i))
\* the position among the processed rows of the row at position i
SurvivorIndex(i) == CHOOSE a \in 1..Len(Survivors) : Survivors[a] = i
\* C20: the accounts of a resolved result are the distinct account names of the
\* processed rows, one entry each, in the order of their first rows; an entry's
\* categorical attributes are those of the first row that carries its name, and
\* in the rich parser so are its startMonth, startYear, yearsOfEngagement and
\* endYear.
C20_AccountsFromFirstRows ==
  (ColumnsAccepted /\ outcome.kind = "resolved") =>
    /\ Len(outcome.result.accounts) = Len(FirstCarriers)
    /\ \A p \in 1..Len(FirstCarriers) :
         /\ outcome.result.accounts[p].name = RowName(FirstCarriers[p])
         /\ \A f \in TextFieldsOf(variant) :
              outcome.result.accounts[p][f[1]]
                = StrOr(Cell(file.rows[FirstCarriers[p]], f[2]), f[3])
         /\ variant = "rich" =>
              \A f \in {"startMonth", "startYear", "yearsOfEngagement", "endYear"} :
                 outcome.result.accounts[p][f]
                   = RecordOf(outcome.result.weekly, Len(Survivors),
                              SurvivorIndex(FirstCarriers[p]), 1)[f]
\* two processed rows carry the same account name with different industries, and
\* the result has the one account
C20_Witness ==
  /\ ColumnsAccepted /\ outcome.kind = "resolved"
  /\ Survivors = <<1, 2>>
  /\ RowName(1) = RowName(2)
  /\ Cell(file.rows[1], hIndustry) # Cell(file.rows[2], hIndustry)
  /\ Len(outcome.result.accounts) = 1

\* the revenue (volume) of the 52 records generated from the i-th processed row
OwnRecords(weekly, i, field) ==
  [w \in 1..WeeksPerYear |-> RecordOf(weekly, Len(Survivors), i, w)[field]]
\* C21: in the rich parser's result every account's baseRev and baseVol are the
\* sums of revenue and volume over the 52 weekly records generated from the row
\* that defines the account (the first row that carries its name), also when
\* another row has the same account name.
C21_BaseFromOwnRecords ==
  (ColumnsAccepted /\ variant = "rich" /\ outcome.kind = "resolved") =>
    \A p \in 1..Len(FirstCarriers) :
      /\ outcome.result.accounts[p].baseRev
           = SumNum(OwnRecords(outcome.result.weekly,
                               SurvivorIndex(FirstCarriers[p]), "revenue"))
      /\ outcome.result.accounts[p].baseVol
           = SumNum(OwnRecords(outcome.result.weekly,
                               SurvivorIndex(FirstCarriers[p]), "volume"))

(***************************************************************************)
(* Properties of the dashboard's data path (specification SpecDash)        *)
(***************************************************************************)
BucketRevenues(buckets) == [b \in 1..Len(buckets) |-> buckets[b].revenue]
BucketVolumes(buckets) == [b \in 1..Len(buckets) |-> buckets[b].volume]
TotalRevenue(data) == SumNum(Revenues(data))
TotalVolume(data) == SumNum(Volumes(data))
\* the dimensions the dashboard groups by, and one that no record has
GroupKeys == {"account", "industry", "area", "agent", "teamDesignation"}
SumPreserving(data) ==
  /\ \A p \in Periods :
       /\ SumNum(BucketRevenues(aggregate(data, p))) = TotalRevenue(data)
       /\ SumNum(BucketVolumes(aggregate(data, p))) = TotalVolume(data)
  /\ \A key \in GroupKeys :
       /\ SumNum(BucketRevenues(groupByKey(data, key))) = TotalRevenue(data)
       /\ SumNum(BucketVolumes(groupByKey(data, key))) = TotalVolume(data)

\* C4: for the records the dashboard aggregates (the base records, the scenario's
\* output and the filtered output, empty ones included) and each of Weekly,
\* Monthly, Yearly, the revenue of aggregate's buckets sums to the revenue of the
\* records, and likewise the volume; the same holds for groupByKey over each
\* dimension, one absent from the records included.
C4_SumPreserving ==
  /\ SumPreserving(baseTY.weekly)
  /\ SumPreserving(scenarioData)
  /\ SumPreserving(adjustedTY)
\* the filtered output has several records in one month and more than one month,
\* with revenue changed by the scenario
C4_Witness ==
  /\ Len(aggregate(adjustedTY, "Monthly")) >= 2
  /\ Len(aggregate(adjustedTY, "Monthly")) < Len(adjustedTY)
  /\ \E i, j \in 1..Len(adjustedTY) :
       /\ i < j /\ adjustedTY[i].week = adjustedTY[j].week
       /\ NPositive(adjustedTY[i].revenue)
  /\ revenueMultiplier # One

\* 1 + pct/100 and 1 + 0.6*pct/100
RevenueShift(pct) == NAdd(One, Frac(pct, 100))
VolumeShift(pct) == NAdd(One, NMul(Frac(3, 5), Frac(pct, 100)))
Targeted(d) == mixShiftIndustry # Null /\ d.industry = mixShiftIndustry

\* C5: applyScenario maps each record to revenue*revenueMultiplier and
\* volume*volumeMultiplier, times (1 + mixShiftPct/100) resp.
\* (1 + 0.6*mixShiftPct/100) exactly when mixShiftIndustry is set and is the
\* record's industry; with mixShiftPct = 20 a targeted record's revenue is scaled
\* by 1.20 and its volume by 1.12; with multipliers 1 and no mix-shift industry the
\* output equals the input.
C5_ScenarioFormula ==
  /\ Len(scenarioData) = Len(pristine)
  /\ \A k \in 1..Len(pristine) :
       LET d == pristine[k]
           s == scenarioData[k]
       IN  /\ s.revenue = NMul(NMul(d.revenue, revenueMultiplier),
                               IF Targeted(d) THEN RevenueShift(mixShiftPct) ELSE One)
           /\ s.volume = NMul(NMul(d.volume, volumeMultiplier),
                              IF Targeted(d) THEN VolumeShift(mixShiftPct) ELSE One)
           /\ (Targeted(d) /\ mixShiftPct = 20) =>
                /\ s.revenue = NMul(NMul(d.revenue, revenueMultiplier), Frac(120, 100))
                /\ s.volume = NMul(NMul(d.volume, volumeMultiplier), Frac(112, 100))
  /\ (revenueMultiplier = One /\ volumeMultiplier = One /\ mixShiftIndustry = Null) =>
       scenarioData = pristine
\* a 20% mix shift with a targeted and an untargeted record, both with figures
C5_Witness ==
  /\ mixShiftPct = 20
  /\ volumeMultiplier # One
  /\ \E i, j \in 1..Len(pristine) :
       /\ Targeted(pristine[i]) /\ NPositive(pristine[i].volume)
       /\ ~Targeted(pristine[j]) /\ NPositive(pristine[j].revenue)

CurrentOpts ==
  [revenueMultiplier |-> revenueMultiplier, volumeMultiplier |-> volumeMultiplier,
   mixShiftIndustry |-> mixShiftIndustry, mixShiftPct |-> mixShiftPct]
\* d with its figures replaced by those of e
WithFiguresOf(d, e) == [d EXCEPT !.revenue = e.revenue, !.volume = e.volume]

\* C6: applyScenario never changes its input: after any sequence of calls with any
\* parameters the base weekly records are as they were produced; the output has
\* the same length and order and every field other than revenue and volume equal
\* to the input record's; and the output is the one a call on the produced records
\* with the current parameters returns, whatever calls were made before.
C6_InputUnchanged ==
  /\ baseTY.weekly = pristine
  /\ Len(scenarioData) = Len(pristine)
  /\ \A k \in 1..Len(pristine) : WithFiguresOf(scenarioData[k], pristine[k]) = pristine[k]
  /\ scenarioData = applyScenario(pristine, CurrentOpts).ret
\* a call with a multiplier and a mix shift that changed the figures, made after
\* other calls on the same records
C6_Witness ==
  /\ revenueMultiplier # One
  /\ volumeMultiplier # One
  /\ mixShiftIndustry # Null
  /\ mixShiftPct # DefaultMixShiftPct
  /\ \E k \in 1..Len(pristine) :
       /\ Targeted(pristine[k])
       /\ scenarioData[k].revenue # pristine[k].revenue
       /\ scenarioData[k].volume # pristine[k].volume

\* the claim's condition on a record, dimension by dimension
Matches(d) ==
  /\ filters.industry = sAll \/ d.industry = filters.industry
  /\ filters.salesCategory = sAll \/ d.salesCategory = filters.salesCategory
  /\ filters.status = sAll \/ d.status = filters.status
  /\ filters.city = sAll \/ d.city = filters.city
  /\ filters.territoryCode = sAll \/ d.territoryCode = filters.territoryCode
  /\ filters.agent = sAll \/ d.agent = filters.agent
  /\ filters.area = sAll \/ d.area = filters.area
MatchingPositions == {k \in 1..Len(scenarioData) : Matches(scenarioData[k])}

\* C7: applyFilters returns, in input order, exactly the records for which every
\* one of the seven dimensions of the filter set is 'all' or equal to the record's
\* field; with every dimension 'all' it returns its input unchanged, and when no
\* record matches it returns the empty collection.
C7_FilterSemantics ==
  /\ adjustedTY = [j \in 1..Cardinality(MatchingPositions) |->
                     scenarioData[SetToSeqAsc(MatchingPositions)[j]]]
  /\ (\A dim \in DOMAIN filters : filters[dim] = sAll) => adjustedTY = scenarioData
  /\ MatchingPositions = {} => adjustedTY = <<>>
\* a filter on one dimension kept some records, in order, and dropped others
C7_Witness ==
  /\ ActiveFilters(filters) # {}
  /\ filters.area # Undefined
  /\ Len(adjustedTY) >= 2
  /\ Len(adjustedTY) < Len(scenarioData)

\* C8 (as amended): the dashboard applies the scenario to the base records first
\* and filters the adjusted records second; the order does not affect the result:
\* filtering the base records first and applying the scenario second gives the
\* same records, hence the same total revenue and volume.
C8_OrderDoesNotAffectTotals ==
  /\ scenarioData = applyScenario(pristine, CurrentOpts).ret
  /\ adjustedTY = SelectSeq(scenarioData, Matches)
  /\ adjustedTY = applyScenario(applyFilters(pristine, filters), CurrentOpts).ret
  /\ TotalRevenue(applyFilters(applyScenario(pristine, CurrentOpts).ret, filters))
       = TotalRevenue(applyScenario(applyFilters(pristine, filters), CurrentOpts).ret)
\* the mix shift changes a record of one industry while the filter keeps another
\* industry, so the targeted record is excluded
C8_Witness ==
  /\ mixShiftIndustry # Null
  /\ filters.industry # sAll
  /\ filters.industry # mixShiftIndustry
  /\ adjustedTY # <<>>
  /\ \E k \in 1..Len(pristine) :
       Targeted(pristine[k]) /\ scenarioData[k].revenue # pristine[k].revenue
\* C8 as stated: for the base records the dashboard holds there exist scenario
\* parameters with a mix-shift industry and a filter on the industry dimension
\* (one that keeps that industry, or one that excludes it) for which the total
\* revenue of filter-after-scenario differs from that of scenario-after-filter
C8_OrderAffectsTotals ==
  \E rm \in RevenueMultipliers, vm \in VolumeMultipliers, pct \in MixShiftPcts :
    \E industry, kept \in Offered(baseTY.meta, "industry") :
      LET opts == [revenueMultiplier |-> rm, volumeMultiplier |-> vm,
                   mixShiftIndustry |-> industry, mixShiftPct |-> pct]
          flt == [AllFilters EXCEPT !.industry = kept]
      IN  TotalRevenue(applyFilters(applyScenario(pristine, opts).ret, flt))
            # TotalRevenue(applyScenario(applyFilters(pristine, flt), opts).ret)

\* the dimensions the dashboard's charts group by (lines 1545-1548)
ChartKeys == {"account", "industry", "area", "agent"}
\* the position of the first record of data whose dimension key has value v
FirstSeen(data, key, v) == CHOOSE i \in 1..Len(data) :
  data[i][key] = v /\ \A j \in 1..(i - 1) : data[j][key] # v
\* the sum of field f over the records of data whose dimension key has value v
SumWhere(data, key, v, f) ==
  SumNum([i \in 1..Len(data) |-> IF data[i][key] = v THEN data[i][f] ELSE Zero])
Grouped(data, key, g) ==
  /\ Len(g) = Cardinality({data[i][key] : i \in 1..Len(data)})
  /\ \A i \in 1..Len(data) : \E b \in 1..Len(g) : g[b][key] = data[i][key]
  /\ \A b \in 1..Len(g) :
       /\ g[b].revenue = SumWhere(data, key, g[b][key], "revenue")
       /\ g[b].volume = SumWhere(data, key, g[b][key], "volume")
       /\ \A c \in (b + 1)..Len(g) :
            \/ NLess(g[c].revenue, g[b].revenue)
            \/ /\ g[c].revenue = g[b].revenue
               /\ FirstSeen(data, key, g[b][key]) < FirstSeen(data, key, g[c][key])

\* C22: for the records the dashboard displays and each dimension it groups by,
\* groupByKey returns exactly one bucket per distinct value of the dimension, each
\* with the sums of revenue and volume of the records with that value, in
\* descending order of revenue, buckets of equal revenue in the order in which
\* their values first occur in the records.
C22_GroupByKey ==
  \A key \in ChartKeys : Grouped(adjustedTY, key, groupByKey(adjustedTY, key))
\* the displayed records give two industries the same positive revenue
C22_Witness ==
  /\ Len(groupByKey(adjustedTY, "industry")) = 2
  /\ groupByKey(adjustedTY, "industry")[1].revenue
       = groupByKey(adjustedTY, "industry")[2].revenue
  /\ NPositive(groupByKey(adjustedTY, "industry")[1].revenue)

\* the rows of statusByAgent for the displayed records (line 1701)
statusAgent == statusByAgent(adjustedTY)
\* the statuses that occur with agent a in data
StatusesOf(data, a) == {data[i].status : i \in {j \in 1..Len(data) : data[j].agent = a}}
\* the sum of the revenue of the records of data with agent a and status s
SumOfPair(data, a, s) ==
  SumNum([i \in 1..Len(data) |->
            IF data[i].agent = a /\ data[i].status = s THEN data[i].revenue ELSE Zero])
\* the sum of the status columns of a row
RowTotal(data, row) ==
  SumNum([i \in 1..Len(data) |->
            IF /\ data[i].agent = row[sAgentKey].s
               /\ \A j \in 1..(i - 1) :
                    data[j].agent # data[i].agent \/ data[j].status # data[i].status
            THEN row[data[i].status].v ELSE Zero])
\* C23: for the records the dashboard displays, statusByAgent returns exactly one
\* row per distinct agent, whose agent field is that agent and whose column for
\* each status occurring with the agent is a number, the sum of the revenue of the
\* records with that agent and status; the status columns of all rows together
\* sum to the total revenue of the records.
C23_StatusByAgent ==
  /\ Len(statusAgent) = Cardinality({adjustedTY[i].agent : i \in 1..Len(adjustedTY)})
  /\ \A i \in 1..Len(adjustedTY) :
       \E r \in 1..Len(statusAgent) :
          /\ statusAgent[r][sAgentKey] = StrCell(adjustedTY[i].agent)
          /\ \A s \in StatusesOf(adjustedTY, adjustedTY[i].agent) :
               /\ statusAgent[r][s].t = "number"
               /\ statusAgent[r][s].v = SumOfPair(adjustedTY, adjustedTY[i].agent, s)
  /\ SumNum([r \in 1..Len(statusAgent) |-> RowTotal(adjustedTY, statusAgent[r])])
       = TotalRevenue(adjustedTY)

\* the months of the buckets of a monthly aggregate, in bucket order
BucketMonths(monthly) == [i \in 1..Len(monthly) |-> monthly[i].month]
\* the months of the year, as the base dataset represents them.  generateSample
\* and the rich parser push a record for every account and each of the weeks
\* 1..52 (lines 1427-1465, 203-259), so the base dataset has records in months
\* 1..12; the datasets here keep a few of the 52 weeks, and the months of those
\* weeks stand for the twelve.
BaseMonths == SetToSeqAsc({weeklyToMonth(pristine[k].week) : k \in 1..Len(pristine)})
\* the records of the base dataset with the categorical fields of d
SameCategories(d) ==
  SelectSeq(pristine, LAMBDA e : \A f \in ChartKeys \cup {"salesCategory", "city",
                                    "territoryCode", "status"} : e[f] = d[f])
\* every account of the base dataset is represented in each of the dataset's
\* weeks, as in the program's datasets
EveryWeekRepresented ==
  \A k \in 1..Len(pristine) :
     {SameCategories(pristine[k])[j].week : j \in 1..Len(SameCategories(pristine[k]))}
       = {pristine[j].week : j \in 1..Len(pristine)}
\* C24: in every state of the dashboard monthlyTY has exactly one bucket for each
\* month of the year, in ascending order of month, so that the bucket at index i
\* is the (i+1)-th month, as the overlay charts assume.
C24_TwelveMonthlyBuckets ==
  EveryWeekRepresented => BucketMonths(monthlyTY) = BaseMonths

\* C25: the sentinel assertion of the runtime test, console.assert(v === null),
\* holds on every run of the effect, which runs again whenever mixShiftIndustry
\* changes: after any sequence of changes of the mix-shift selector the value
\* derived from mixShiftIndustry by the 'none'-sentinel rule is null.
C25_SentinelAssertion == sentinelValue = Null

\* C26: in every state of the filter-enabled dashboard each of the seven filter
\* dimensions holds 'all' or a selected value, and when no dimension is narrowed,
\* as immediately after Reset, the displayed records are the whole
\* scenario-adjusted dataset.
C26_FiltersAllOrSelected ==
  /\ \A dim \in DOMAIN AllFilters : filters[dim] # Undefined
  /\ ActiveFilters(filters) = {} => adjustedTY = scenarioData

\* a step in which an upload succeeds
UploadSucceeds == HandleFileUpload /\ isUsingUploadedData'
\* the scenario settings and the filters after a successful upload
SettingsReset ==
  /\ revenueMultiplier' = One /\ volumeMultiplier' = One
  /\ mixShiftIndustry' = Null /\ mixShiftPct' = 10
  /\ \A dim \in DOMAIN AllFilters : filters'[dim] = sAll
ReplacedByUpload ==
  /\ baseTY' \in UploadedData
  /\ scenarioData' = baseTY'.weekly /\ adjustedTY' = baseTY'.weekly
  /\ SettingsReset
BackToSample ==
  /\ baseTY' = SampleTY /\ ~isUsingUploadedData'
  /\ scenarioData' = SampleTY.weekly
\* C27: when an upload succeeds the base dataset becomes exactly the parsed
\* result, with no record of the dataset displayed before, and the scenario
\* settings are reset to revenueMultiplier = 1, volumeMultiplier = 1,
\* mixShiftIndustry = null, mixShiftPct = 10 and every filter to 'all'; Reset
\* discards the uploaded dataset and returns to the generated sample.
C27_UploadReplaces ==
  [][(UploadSucceeds => ReplacedByUpload) /\ (ResetToSampleData => BackToSample)]_vars
\* an uploaded dataset is displayed whole, with the settings of a fresh upload,
\* and is not the dataset of the sample
C27_Witness ==
  /\ isUsingUploadedData /\ baseTY \in UploadedData
  /\ adjustedTY = baseTY.weekly
  /\ \A k \in 1..Len(adjustedTY) :
       \A j \in 1..Len(SampleTY.weekly) : adjustedTY[k] # SampleTY.weekly[j]
  /\ revenueMultiplier = One /\ filters = AllFilters

\* C28: in every state of the dashboard each filter that is narrowed to a value,
\* and a mixShiftIndustry that is not null, holds a member of the corresponding
\* list of the meta of the dataset displayed as baseTY.
C28_SelectionsOffered ==
  /\ \A dim \in ActiveFilters(filters) : filters[dim] \in Offered(baseTY.meta, dim)
  /\ mixShiftIndustry # Null => mixShiftIndustry \in Offered(baseTY.meta, "industry")

\* every selected file has been parsed to the end
AllSettled == uploads # <<>> /\ \A i \in 1..Len(uploads) : uploads[i].done
\* the call for the file selected last
LatestUpload == uploads[Len(uploads)]
\* C29: when several uploads are in flight at once, possibly with Reset clicked in
\* between, then once all have settled the dashboard shows the outcome of the
\* file selected last and nothing else: its dataset and no error message if its
\* parse succeeded, its error message and the sample data if it failed; and an
\* error message is never shown while an uploaded dataset is displayed.
C29_LatestUploadWins ==
  /\ AllSettled =>
       IF LatestUpload.ok
       THEN isUsingUploadedData /\ pristine = LatestUpload.data /\ uploadError = Null
       ELSE ~isUsingUploadedData /\ pristine = SampleTY.weekly
                                 /\ uploadError = LatestUpload.message
  /\ ~(isUsingUploadedData /\ uploadError # Null)

\* the months whose name the text contains, compared in lower case
NamedMonths(s) ==
  {m \in 1..Len(weekMap) : includes(toLowerCase(s), toLowerCase(weekMap[m].k))}
\* the months that have a bucket in the monthly aggregation of the parsed records
ParsedMonths ==
  LET monthly == aggregate(outcome.result.weekly, "Monthly")
  IN  {monthly[b].month : b \in 1..Len(monthly)}
\* C30: in the legacy parser, a row whose start text names month M (January to
\* December) gets a week w = getWeekFromMonth(text) with weeklyToMonth(w) = M, so
\* that the monthly aggregation puts the row's revenue into bucket M.
C30_StartMonthBucket ==
  (ParsedRows /\ variant = "legacy" /\ outcome.kind = "resolved") =>
    \A a \in 1..Len(Survivors) :
      LET row == file.rows[Survivors[a]]
          text == Cell(row, hExpectedStart)
      IN  \A M \in 1..MonthsPerYear :
            (/\ Cell(row, hExpectedStartLong) = NoCell
             /\ text.t = "string"
             /\ NamedMonths(text.s) = {M})
            => /\ weeklyToMonth(outcome.result.weekly[a].week) = M
               /\ M \in ParsedMonths

(***************************************************************************)
(* Properties of the comparison panel (specification SpecForecast)         *)
(***************************************************************************)
\* the sum of field f over the monthly buckets with month <= c
BucketsUpTo(monthly, c) == {b \in 1..Len(monthly) : monthly[b].month <= c}
YtdOfBuckets(monthly, c, f) ==
  SumNum([j \in 1..Cardinality(BucketsUpTo(monthly, c)) |->
            monthly[SetToSeqAsc(BucketsUpTo(monthly, c))[j]][f]])
\* ytd + (12 - c) * avg * (1 + adjPct/100)
ForecastOf(ytd, avg, c, adjPct) ==
  NAdd(ytd, NMul(NMul(FromInt(12 - c), avg), NAdd(One, Frac(adjPct, 100))))
NonPositiveCutoffs == {-2, -1, 0}
ForecastRule(ytd, avg, fc, f) ==
  /\ ytd = YtdOfBuckets(monthlyTY, monthCutoff, f)
  /\ avg = (IF monthCutoff > 0 THEN NDiv(ytd, FromInt(monthCutoff)) ELSE Zero)
  /\ fc = ForecastOf(ytd, avg, monthCutoff, forecastAdjPct)
  /\ monthCutoff = 12 => fc = ytd
  /\ \A adjPct \in ForecastAdjPcts : forecast(ytd, 12, adjPct) = ytd
  /\ \A c \in NonPositiveCutoffs :
       /\ avgPerMonth(ytd, c) = Zero
       /\ \A adjPct \in ForecastAdjPcts : forecast(ytd, c, adjPct) = ytd

\* C9: with monthly aggregates and a month cutoff c, ytd is the sum of the buckets
\* with month <= c, avgPerMonth is ytd/c when c > 0 and 0 otherwise, and
\* forecast = ytd + (12 - c)*avgPerMonth*(1 + adjPct/100); ytd = 1200, c = 6,
\* adjPct = 10 gives 2520; c = 12 gives forecast = ytd for every adjPct; for c <= 0
\* the average is 0 (nothing is divided by zero) and the forecast is ytd.  The
\* same holds for volume.
C9_ForecastRule ==
  /\ forecast(FromInt(1200), 6, 10) = FromInt(2520)
  /\ avgPerMonth(FromInt(1200), 6) = FromInt(200)
  /\ ForecastRule(ytdRevenueTY, avgPerMonthRevTY, forecastRevenueTY, "revenue")
  /\ ForecastRule(ytdVolumeTY, avgPerMonthVolTY, forecastVolumeTY, "volume")
\* a cutoff inside the year that leaves a month with revenue out of the
\* year-to-date figure, with a forecast adjustment
C9_Witness ==
  /\ monthCutoff \in 2..11
  /\ forecastAdjPct = 10
  /\ NPositive(ytdRevenueTY)
  /\ NPositive(ytdVolumeTY)
  /\ NLess(ytdRevenueTY, TotalRevenue(adjustedTY))
  /\ forecastRevenueTY # ytdRevenueTY

=============================================================================
